---- MODULE Spec2Model ----
(***************************************************************************)
(* Control-plane core of the streaming platform:                           *)
(*   - the channel manager of the streaming coordinator                    *)
(*     (src/unnamed/part_000),                                             *)
(*   - the index/stats task scheduler of the data coordinator              *)
(*     (src/internal/datacoord/task_scheduler.go), and                     *)
(*   - the garbage collector of the data coordinator                       *)
(*     (src/internal/datacoord/garbage_collector.go).                      *)
(* The subsystems share no state; each has its own specifications.         *)
(***************************************************************************)
EXTENDS Integers, Sequences, FiniteSets, TLC

\* ------------------------------------------------------------ bounds
MaxTerm == 2          \* a channel is not re-assigned beyond this term
MaxAssigns == 2       \* the terms of all channels together stay within this
MaxVersion == 2       \* the local counter of the view version is capped here

MaxSlots == 2         \* QuerySlots reports 0..MaxSlots free slots per node
MaxTaskSlot == 3      \* a task costs 0..MaxTaskSlot slots
MaxFinishCalls == 4   \* calls of processFinished recorded per task

MaxTime == 2          \* the clock of the garbage collector stops here
MaxCheckpoint == 1    \* channel checkpoint and DML timestamps are 0..this
MaxResidue == 1       \* unreferenced files in the bucket at one time

\* ------------------------------------------------------- universes
Channels == {"c1", "c2"}          \* the configured (incoming) channel names
UnknownChannel == "cx"            \* a name the manager never learns
ChannelIDs == Channels \cup {UnknownChannel}
Servers == {1, 2}                 \* streaming node ids
Modes == {"RO", "RW"}             \* AccessMode_RO / AccessMode_RW
NoNode == -1                      \* CurrentServerID of a channel without node
NodeID == 7                       \* paramtable.GetNodeID(): the global epoch
NilVersion == 0                   \* streamingVersion == nil
Notifiers == {1, 2, 3, 4}         \* the AsyncTaskNotifier objects of the callers
Watchers == {1}                   \* watchers act on the manager only
Tasks == {1, 2}                   \* task ids
WorkerNodes == {1, 2}             \* worker node ids
SchedTasks == {1}                 \* the tasks submitted while every loop runs
SegIDs == {1, 2, 3}               \* segment ids, allocated in this order
Kinds == {"insert_log", "stats_log", "delta_log"}   \* the scanned prefixes
PauseDurations == {1, 2}          \* the durations handed to Pause
ResidueSegs == {1, 2}             \* the segment ids in the paths of residue
DmlTimes == {1}                   \* the DML position timestamps of segments
missingTolerance == 1             \* GcOption.missingTolerance
dropTolerance == 1                \* GcOption.dropTolerance
NoChild == 0                      \* childSegment == nil

VARIABLES
  channels,        \* ChannelManager.channels : ChannelID -> PChannelMeta
  version,         \* ChannelManager.version  : VersionInt64Pair
  catalog,         \* StreamingCatalog: the persisted PChannelMeta records
  streamingVersion,\* ChannelManager.streamingVersion (NilVersion or 1)
  catalogVersion,  \* StreamingCatalog: the persisted streaming version
  lastAssign,      \* the updates of the immediately preceding successful
                   \* AssignPChannels call, and whether the call before it
                   \* was the same (<<>> after any other call)
  streamingEnableNotifiers,
                   \* ChannelManager.streamingEnableNotifiers, in order
  notifiers,       \* per notifier: whether RegisterStreamingEnabledNotifier
                   \* got it and put it on the list ("pending") or found
                   \* streaming enabled ("enabled"), and how many times its
                   \* Cancel was called
  wpc,             \* Watch: position of each watcher
  lastVersion,     \* Watch: the local variable lastVersion of each watcher
  received,        \* Watch: the versions of the views passed to each
                   \* watcher's callback, in order
  task,            \* the Task objects: state, fail reason, node id, slot
  enqueued,        \* the tasks handed to enqueue so far
  finalized,       \* meta: tasks whose final record SetJobInfo persisted or
                   \* whose record DropTaskMeta dropped
  pendingTasks,    \* taskScheduler.pendingTasks, in queue order
  runningTasks,    \* taskScheduler.runningTasks (its keys)
  taskLock,        \* taskScheduler.taskLock: the holder of each key
  aborted,         \* the tasks for which an AbortTask call has returned
  registered,      \* nodeManager: the worker nodes GetClientByID finds
  runPc,           \* run: position of the dispatch pass
  workerSlots,     \* run: the slot snapshot of the pass, as pickNode left it
  querySlots,      \* run: the snapshot as QuerySlots returned it
  picked,          \* run: per node, what pickNode assigned in this pass
  disp,            \* run: the goroutine of each popped task
  pollPc,          \* checkProcessingTasks: the goroutine of each polled task
  ctxDone,         \* taskScheduler.ctx is cancelled
  stopPc,          \* Stop: position of the caller
  exited,          \* the loops of Start that have returned
  notifyChan,      \* taskScheduler.notifyChan: the tokens it holds (0 or 1)
  taskMeta,        \* meta: the task records reloadFromMeta reads
  reloaded,        \* newTaskScheduler has called reloadFromMeta
  dropMetaCalls,   \* per task, the DropTaskMeta calls since its last pop
  finishLog,       \* per task, the calls processFinished made, in order
  now,             \* time.Now()
  segments,        \* meta: segment id -> SegmentInfo
  lastSegID,       \* the id allocator: the last segment id handed out
  segIndexes,      \* indexMeta: the segments with a segment index record
  indexFiles,      \* object storage: the build-id directories under the
                   \* index prefix (one build per segment)
  channelExists,   \* catalog.ChannelExists of the one insert channel
  channelCP,       \* meta.GetChannelCheckpoint(channel).GetTimestamp()
  bucket,          \* object storage: log path -> ModTime
  pauseUntil,      \* garbageCollector.pauseUntil
  lastScan,        \* scan: when it last ran, the prefixes it could list
                   \* and its removedKeys
  gcDropped,       \* the segments clearEtcd dropped from meta: the record
                   \* each had and the child clearEtcd had found for it
  cleanRuns,       \* "meta" after a tick that ran without error, "full"
                   \* after a scan without error right behind it
  gcEnabled,       \* GcOption.enabled
  gcCall           \* the Pause or Resume call in flight: its command, its
                   \* position, what it returned and whether the worker
                   \* applied the command

chanVars == <<channels, version, catalog, streamingVersion, catalogVersion>>
watchVars == <<wpc, lastVersion, received>>
notifyVars == <<streamingEnableNotifiers, notifiers>>
NotifyIdle == UNCHANGED notifyVars
schedVars == <<task, enqueued, finalized, pendingTasks, runningTasks, taskLock,
               aborted, registered, runPc, workerSlots, disp, pollPc>>
passVars == <<querySlots, picked>>
stopVars == <<ctxDone, stopPc, exited>>
StopIdle == UNCHANGED stopVars
reloadVars == <<taskMeta, reloaded, dropMetaCalls>>
ReloadIdle == UNCHANGED reloadVars
SchedIdle ==
  UNCHANGED <<schedVars, passVars, stopVars, finishLog, notifyChan, reloadVars>>
gcVars == <<now, segments, lastSegID, segIndexes, indexFiles, channelExists,
            channelCP, bucket, pauseUntil, lastScan, gcDropped, cleanRuns>>
cmdVars == <<gcEnabled, gcCall>>
CmdIdle == UNCHANGED cmdVars
GcIdle == UNCHANGED <<gcVars, cmdVars>>
vars == <<channels, version, catalog, streamingVersion, catalogVersion,
          streamingEnableNotifiers, notifiers, lastAssign,
          wpc, lastVersion, received, task, enqueued, finalized,
          pendingTasks, runningTasks, taskLock, aborted, registered, runPc,
          workerSlots, querySlots, picked, disp, pollPc, ctxDone, stopPc,
          exited, finishLog, notifyChan, taskMeta, reloaded, dropMetaCalls,
          now, segments, lastSegID, segIndexes, indexFiles, channelExists,
          channelCP, bucket, pauseUntil, lastScan, gcDropped, cleanRuns,
          gcEnabled, gcCall>>

\* ------------------------------------------------- PChannelMeta
\* LastAssignTimestampSeconds is wall-clock time and is left out.
newPChannelMeta(name, accessMode) ==
  [term |-> 0, mode |-> accessMode, node |-> NoNode,
   state |-> "uninitialized", hist |-> <<>>]

\* TryAssignToServerID without the Term++ of line 195.
TryAssignToServerID_NoTermIncrement(m, accessMode, serverID) ==
  IF m.mode = accessMode /\ m.node = serverID /\ m.state = "assigned"
  THEN [ok |-> FALSE, meta |-> m]
  ELSE [ok |-> TRUE,
        meta |-> [term  |-> m.term,
                  mode  |-> accessMode,
                  node  |-> serverID,
                  state |-> "assigning",
                  hist  |-> IF m.state # "uninitialized"
                            THEN Append(m.hist, [term |-> m.term,
                                                 node |-> m.node,
                                                 mode |-> m.mode])
                            ELSE m.hist]]

\* TryAssignToServerID skipping on an equal (mode, node) whatever the state.
TryAssignToServerID_SkipAnyState(m, accessMode, serverID) ==
  IF m.mode = accessMode /\ m.node = serverID
  THEN [ok |-> FALSE, meta |-> m]
  ELSE [ok |-> TRUE,
        meta |-> [term  |-> m.term + 1,
                  mode  |-> accessMode,
                  node  |-> serverID,
                  state |-> "assigning",
                  hist  |-> IF m.state # "uninitialized"
                            THEN Append(m.hist, [term |-> m.term,
                                                 node |-> m.node,
                                                 mode |-> m.mode])
                            ELSE m.hist]]

\* The result of TryAssignToServerID: whether the channel changed, and the
\* mutable copy after the call.
TryAssignToServerID(m, accessMode, serverID) ==
  IF m.mode = accessMode /\ m.node = serverID /\ m.state = "assigned"
  THEN [ok |-> FALSE, meta |-> m]
  ELSE [ok |-> TRUE,
        meta |-> [term  |-> m.term + 1,
                  mode  |-> accessMode,
                  node  |-> serverID,
                  state |-> "assigning",
                  hist  |-> IF m.state # "uninitialized"
                            THEN Append(m.hist, [term |-> m.term,
                                                 node |-> m.node,
                                                 mode |-> m.mode])
                            ELSE m.hist]]

\* AssignToServerDone that confirms a channel in any state.
AssignToServerDone_AnyState(m) == [m EXCEPT !.hist = <<>>, !.state = "assigned"]

\* AssignToServerDone, lines 206-217.
AssignToServerDone(m) ==
  IF m.state = "assigning"
  THEN [m EXCEPT !.hist = <<>>, !.state = "assigned"]
  ELSE m

MarkAsUnavailable(m) == [m EXCEPT !.state = "unavailable"]

\* put_pchannel: an idempotent save of one record, keyed by channel.
persistAssignment(cat, id, m) ==
  [c \in DOMAIN cat \cup {id} |-> IF c = id THEN m ELSE cat[c]]

\* ------------------------------------------------- recovery
recoverFromConfigurationAndMeta(cat, sv, incomingChannel) ==
  [c \in DOMAIN cat \cup incomingChannel |->
     IF c \in DOMAIN cat THEN cat[c]
     ELSE IF sv = NilVersion THEN newPChannelMeta(c, "RO")
          ELSE newPChannelMeta(c, "RW")]

\* The manager RecoverChannelManager builds from the catalog: its channel
\* map, its version and its streaming version.
RecoverChannelManager(cat, cv, incomingChannel) ==
  [channels |-> recoverFromConfigurationAndMeta(cat, cv, incomingChannel),
   version |-> [global |-> NodeID, local |-> 0],
   streamingVersion |-> cv]

\* ------------------------------------------------- views and Watch
newPChannelView(chs) == [version |-> [global |-> 0, local |-> 0],
                         channels |-> chs]

\* The current view with its version pair, read under the lock.
CurrentPChannelsView ==
  [newPChannelView(channels) EXCEPT !.version = version]

NoNotifiers == [n \in Notifiers |-> [registered |-> "no", cancels |-> 0]]
WatchIdle == [w \in Watchers |-> "idle"]
NoVersion == [w \in Watchers |-> [global |-> 0, local |-> 0]]
NoViews == [w \in Watchers |-> <<>>]

\* Watch, lines 249-255: the initial view goes to the callback; an erring
\* callback ends the watch.
WatchStart(w) ==
  /\ wpc[w] = "idle"
  /\ LET view == CurrentPChannelsView IN
       /\ received' = [received EXCEPT ![w] = Append(@, view.version)]
       /\ \E cbErr \in BOOLEAN :
            IF cbErr
            THEN wpc' = [wpc EXCEPT ![w] = "done"] /\ UNCHANGED lastVersion
            ELSE /\ wpc' = [wpc EXCEPT ![w] = "waiting"]
                 /\ lastVersion' = [lastVersion EXCEPT ![w] = view.version]
  /\ UNCHANGED chanVars

\* A Watch that never waits for the version to move.
WatchBlocked_Never(w) == FALSE

\* The condition that keeps Watch blocked in cond.Wait (line 260).
WatchBlocked(w) == version = lastVersion[w]

\* Watch, lines 257-278: one turn of the loop that gets past the wait.
WatchLoop(w) ==
  /\ wpc[w] = "waiting"
  /\ ~WatchBlocked(w)
  /\ LET newView == [newPChannelView(channels) EXCEPT !.version = version] IN
       /\ received' = [received EXCEPT ![w] = Append(@, newView.version)]
       /\ \E cbErr \in BOOLEAN :
            IF cbErr
            THEN wpc' = [wpc EXCEPT ![w] = "done"] /\ UNCHANGED lastVersion
            ELSE /\ wpc' = [wpc EXCEPT ![w] = "waiting"]
                 /\ lastVersion' = [lastVersion EXCEPT ![w] = newView.version]
  /\ UNCHANGED chanVars

\* Watch, lines 257-262: under the lock the watcher finds the version it
\* delivered last and parks in cond.Wait, which gives up the lock.
WatchWait(w) ==
  /\ wpc[w] = "waiting"
  /\ WatchBlocked(w)
  /\ wpc' = [wpc EXCEPT ![w] = "parked"]
  /\ UNCHANGED <<lastVersion, received>>
  /\ UNCHANGED chanVars

\* A broadcast that wakes nobody.
Broadcast_None(pcs) == pcs

\* cond.LockAndBroadcast, lines 349 and 383: every watcher parked in
\* cond.Wait goes back to the test of its wait loop.
Broadcast(pcs) ==
  [w \in Watchers |-> IF pcs[w] = "parked" THEN "waiting" ELSE pcs[w]]

\* Watch, lines 264-267: the context is cancelled while the watcher waits.
WatchCancel(w) ==
  /\ wpc[w] \in {"waiting", "parked"}
  /\ wpc' = [wpc EXCEPT ![w] = "done"]
  /\ UNCHANGED <<lastVersion, received>>
  /\ UNCHANGED chanVars

\* ------------------------------------------------- streaming enabled
\* notifier.Cancel() on every notifier of the list, in list order.
CancelNotifiers_None(list, ns) == ns

CancelNotifiers(list, ns) ==
  [n \in Notifiers |->
     [ns[n] EXCEPT !.cancels =
        @ + Cardinality({ i \in DOMAIN list : list[i] = n })]]

\* RegisterStreamingEnabledNotifier, lines 288-302: under the lock, a
\* notifier is cancelled at once when the streaming version is set, and is
\* appended to the pending list otherwise. A caller registers a notifier once.
RegisterStreamingEnabledNotifier(n) ==
  /\ notifiers[n].registered = "no"
  /\ IF streamingVersion # NilVersion
     THEN /\ notifiers' =
               CancelNotifiers(<<n>>,
                               [notifiers EXCEPT ![n].registered = "enabled"])
          /\ UNCHANGED streamingEnableNotifiers
     ELSE /\ notifiers' = [notifiers EXCEPT ![n].registered = "pending"]
          /\ streamingEnableNotifiers' = Append(streamingEnableNotifiers, n)
  /\ UNCHANGED <<chanVars, watchVars>>

\* MarkStreamingHasEnabled, lines 308-337: under the lock, the streaming
\* version is set in memory, then saved; when the save gives up (its
\* context ends) the call returns the error with the pending list untouched;
\* otherwise every pending notifier is cancelled and the list is dropped.
MarkStreamingHasEnabled(saveFails) ==
  /\ streamingVersion' = 1
  /\ IF saveFails
     THEN UNCHANGED <<catalogVersion, notifyVars>>
     ELSE /\ catalogVersion' = 1
          /\ notifiers' = CancelNotifiers(streamingEnableNotifiers, notifiers)
          /\ streamingEnableNotifiers' = <<>>
  /\ UNCHANGED <<channels, version, catalog>>
  /\ UNCHANGED watchVars

\* ------------------------------------------------- AssignPChannels
\* An update names a channel and its target; the Go map of updates is
\* walked in an arbitrary order, so a call is a map and one order of its keys.
Targets == [mode : Modes, node : Servers]
UnknownTarget == [mode |-> "RW", node |-> 1]

BatchDomains == { d \in SUBSET ChannelIDs : Cardinality(d) <= 2 }

UpdateMaps ==
  { u \in UNION { [d -> Targets] : d \in BatchDomains } :
      UnknownChannel \in DOMAIN u => u[UnknownChannel] = UnknownTarget }

Orders(d) ==
  { o \in UNION { [1..n -> d] : n \in {Cardinality(d)} } :
      \A i, j \in DOMAIN o : i # j => o[i] # o[j] }

\* lines 353-371: the loop over the updates left to walk (order), with the
\* set of channels whose persist fails.
RECURSIVE AssignLoop(_, _, _, _, _)
AssignLoop(chs, cat, updates, order, failing) ==
  IF order = <<>> THEN [channels |-> chs, catalog |-> cat, err |-> "nil"]
  ELSE LET id == Head(order) IN
    IF id \notin DOMAIN chs
    THEN [channels |-> chs, catalog |-> cat, err |-> "ErrChannelNotExist"]
    ELSE LET r == TryAssignToServerID(chs[id], updates[id].mode,
                                      updates[id].node) IN
      IF ~r.ok THEN AssignLoop(chs, cat, updates, Tail(order), failing)
      ELSE LET chs2 == [chs EXCEPT ![id] = r.meta] IN
        IF id \in failing
        THEN [channels |-> chs2, catalog |-> cat, err |-> "persist"]
        ELSE AssignLoop(chs2, persistAssignment(cat, id, r.meta), updates,
                        Tail(order), failing)

RECURSIVE TermSum(_, _)
TermSum(chs, d) ==
  IF d = {} THEN 0
  ELSE LET c == CHOOSE x \in d : TRUE IN chs[c].term + TermSum(chs, d \ {c})

FailChoices(d) == {{}} \cup { {c} : c \in d \cap Channels }

\* The calls AssignPChannels may get: the updates, the order in which the map
\* is walked and the channels whose persist fails.
CallsWith(u) ==
  { [updates |-> u, order |-> o, failing |-> f] :
      o \in Orders(DOMAIN u), f \in FailChoices(DOMAIN u) }

AssignCalls == UNION { CallsWith(u) : u \in UpdateMaps }

WithinBounds(chs) ==
  /\ \A c \in DOMAIN chs : chs[c].term <= MaxTerm
  /\ TermSum(chs, DOMAIN chs) <= MaxAssigns

AssignPChannelsCall(updates, order, failing) ==
  /\ version.local < MaxVersion
  /\ LET r == AssignLoop(channels, catalog, updates, order, failing) IN
       /\ WithinBounds(r.channels)
       /\ channels' = r.channels
       /\ catalog' = r.catalog
       /\ version' = IF r.err = "nil"
                     THEN [version EXCEPT !.local = @ + 1] ELSE version
  /\ UNCHANGED <<streamingVersion, catalogVersion>>
  /\ wpc' = Broadcast(wpc)
  /\ UNCHANGED <<lastVersion, received>>

AssignPChannels ==
  \E call \in AssignCalls :
    AssignPChannelsCall(call.updates, call.order, call.failing)

\* The calls the watch specification draws: every channel towards one node.
WatchAssignCalls ==
  { call \in AssignCalls :
      \A c \in DOMAIN call.updates : call.updates[c] = UnknownTarget }

WatchAssignPChannels ==
  \E call \in WatchAssignCalls :
    AssignPChannelsCall(call.updates, call.order, call.failing)

\* ------------------------------------------------- confirm
\* confirm(channel): the target node acknowledged ownership. The record is
\* durable before the manager exposes it.
AssignPChannelsDone(id, persistFails) ==
  /\ id \in DOMAIN channels
  /\ version.local < MaxVersion
  /\ LET m == AssignToServerDone(channels[id]) IN
       IF m = channels[id] \/ persistFails
       THEN UNCHANGED <<channels, catalog, version>>
       ELSE /\ catalog' = persistAssignment(catalog, id, m)
            /\ channels' = [channels EXCEPT ![id] = m]
            /\ version' = [version EXCEPT !.local = @ + 1]
  /\ UNCHANGED <<streamingVersion, catalogVersion>>
  /\ wpc' = Broadcast(wpc)
  /\ UNCHANGED <<lastVersion, received>>

Confirm ==
  \E id \in Channels : \E persistFails \in BOOLEAN :
    AssignPChannelsDone(id, persistFails)

\* ------------------------------------------------- RemovePChannels
RECURSIVE RemoveLoop(_, _, _, _)
RemoveLoop(chs, cat, ids, failing) ==
  IF ids = <<>> THEN [channels |-> chs, catalog |-> cat, err |-> "nil"]
  ELSE LET id == Head(ids) IN
    IF id \notin DOMAIN chs THEN RemoveLoop(chs, cat, Tail(ids), failing)
    ELSE LET m == MarkAsUnavailable(chs[id])
             chs2 == [chs EXCEPT ![id] = m] IN
      IF id \in failing
      THEN [channels |-> chs2, catalog |-> cat, err |-> "persist"]
      ELSE RemoveLoop(chs2, persistAssignment(cat, id, m), Tail(ids), failing)

RemovePChannelsCall(ids, failing) ==
  /\ version.local < MaxVersion
  /\ LET r == RemoveLoop(channels, catalog, ids, failing) IN
       /\ channels' = r.channels
       /\ catalog' = r.catalog
       /\ version' = IF r.err = "nil"
                     THEN [version EXCEPT !.local = @ + 1] ELSE version
  /\ UNCHANGED <<streamingVersion, catalogVersion>>
  /\ wpc' = Broadcast(wpc)
  /\ UNCHANGED <<lastVersion, received>>

RemoveCalls ==
  UNION { { [ids |-> o, failing |-> f] : o \in Orders(d), f \in FailChoices(d) } :
          d \in BatchDomains \ {{}} }

RemovePChannels ==
  \E call \in RemoveCalls : RemovePChannelsCall(call.ids, call.failing)

\* ------------------------------------------------- restart
\* The coordinator restarts: a new manager is recovered from the catalog
\* with the same incoming channel names; the watchers of the old one are gone.
Restart ==
  /\ LET cm == RecoverChannelManager(catalog, catalogVersion, Channels) IN
       /\ channels' = cm.channels
       /\ version' = cm.version
       /\ streamingVersion' = cm.streamingVersion
  /\ streamingEnableNotifiers' = <<>>
  /\ notifiers' = NoNotifiers
  /\ wpc' = WatchIdle
  /\ lastVersion' = NoVersion
  /\ received' = NoViews
  /\ UNCHANGED <<catalog, catalogVersion>>

\* =================================================================
\* The task scheduler (src/internal/datacoord/task_scheduler.go)
\* =================================================================
NotifyCap == 1
NoRecord == [kind |-> "absent", state |-> "none", deleted |-> FALSE,
             segment |-> "healthy", node |-> -1]
NoTask == [state |-> "none", reason |-> "", node |-> NoNode, slot |-> 0]

\* The fair queue with one fairness key: Push appends a task that is not
\* queued yet, Pop takes the oldest, Remove and Get go by task id.
Push(q, t) == IF \E i \in DOMAIN q : q[i] = t THEN q ELSE Append(q, t)
Remove(q, t) == SelectSeq(q, LAMBDA x : x # t)
Queued(q) == { q[i] : i \in DOMAIN q }

SetState(tk, state, reason) == [tk EXCEPT !.state = state, !.reason = reason]

\* ------------------------------------------------- enqueue
\* notify, lines 234-239: the send succeeds when the buffer of one is
\* empty and is dropped when it is full.
notify(ch) == IF ch < NotifyCap THEN ch + 1 ELSE ch

enqueue(t, slot) ==
  /\ t \notin enqueued
  /\ enqueued' = enqueued \cup {t}
  /\ task' = [task EXCEPT ![t] = [state |-> "init", reason |-> "",
                                  node |-> NoNode, slot |-> slot]]
  /\ pendingTasks' = IF t \in runningTasks THEN pendingTasks
                     ELSE Push(pendingTasks, t)
  /\ notifyChan' = notify(notifyChan)
  /\ UNCHANGED <<finalized, runningTasks, taskLock, aborted, registered, runPc,
                 workerSlots, disp, pollPc>>

\* ------------------------------------------------- AbortTask
\* lines 263-269: under the key lock the pending task is marked and put in
\* the running map.
AbortPending(t) ==
  /\ t \in enqueued /\ t \notin aborted
  /\ taskLock[t] = "free"
  /\ t \in Queued(pendingTasks)
  /\ taskLock' = [taskLock EXCEPT ![t] = "abort"]
  /\ task' = [task EXCEPT ![t] = SetState(@, "failed", "canceled")]
  /\ runningTasks' = runningTasks \cup {t}
  /\ UNCHANGED <<enqueued, finalized, pendingTasks, aborted, registered, runPc,
                 workerSlots, disp, pollPc>>

\* lines 270-271: it leaves the pending queue and the lock is released.
AbortRemove(t) ==
  /\ taskLock[t] = "abort"
  /\ pendingTasks' = Remove(pendingTasks, t)
  /\ taskLock' = [taskLock EXCEPT ![t] = "free"]
  /\ aborted' = aborted \cup {t}
  /\ UNCHANGED <<task, enqueued, finalized, runningTasks, registered, runPc,
                 workerSlots, disp, pollPc>>

\* lines 274-275: the task is not pending; a running task is marked under
\* the key lock, any other task is left alone and the call returns.
AbortNotPending(t) ==
  /\ t \in enqueued /\ t \notin aborted
  /\ taskLock[t] = "free"
  /\ t \notin Queued(pendingTasks)
  /\ IF t \in runningTasks
     THEN /\ task' = [task EXCEPT ![t] = SetState(@, "failed", "canceled")]
          /\ taskLock' = [taskLock EXCEPT ![t] = "abortRunning"]
          /\ UNCHANGED aborted
     ELSE /\ aborted' = aborted \cup {t}
          /\ UNCHANGED <<task, taskLock>>
  /\ UNCHANGED <<enqueued, finalized, pendingTasks, runningTasks,
                 registered, runPc, workerSlots, disp, pollPc>>

\* lines 276-277: the marked task is inserted in the running map again and
\* the lock is released.
AbortInsert(t) ==
  /\ taskLock[t] = "abortRunning"
  /\ runningTasks' = runningTasks \cup {t}
  /\ taskLock' = [taskLock EXCEPT ![t] = "free"]
  /\ aborted' = aborted \cup {t}
  /\ UNCHANGED <<task, enqueued, finalized, pendingTasks, registered, runPc,
                 workerSlots, disp, pollPc>>

\* ------------------------------------------------- the worker registry
NodeJoin(n) ==
  /\ n \notin registered
  /\ registered' = registered \cup {n}
  /\ UNCHANGED <<task, enqueued, finalized, pendingTasks, runningTasks,
                 taskLock, aborted, runPc, workerSlots,
                 disp, pollPc>>

NodeLeave(n) ==
  /\ n \in registered
  /\ registered' = registered \ {n}
  /\ UNCHANGED <<task, enqueued, finalized, pendingTasks, runningTasks,
                 taskLock, aborted, runPc, workerSlots,
                 disp, pollPc>>

\* ------------------------------------------------- slot allocation
\* hasAvailableSlots that lets the loop go on without a free slot.
hasAvailableSlots_Always(ws) == TRUE

\* hasAvailableSlots, lines 650-659.
hasAvailableSlots(ws) == \E n \in DOMAIN ws : ws[n] > 0

\* pickNode that reserves nothing on a node that fits.
pickNode_NoSubtract(ws, taskSlot) ==
  LET fits == { n \in DOMAIN ws : ws[n] >= taskSlot }
      pos  == { n \in DOMAIN ws : ws[n] > 0 }
      most == { n \in pos : \A m \in pos : ws[m] <= ws[n] }
  IN IF fits # {}
     THEN { [node |-> n, slots |-> ws, fallback |-> FALSE] : n \in fits }
     ELSE IF pos # {}
     THEN { [node |-> n, slots |-> [ws EXCEPT ![n] = 0], fallback |-> TRUE] :
            n \in most }
     ELSE { [node |-> NoNode, slots |-> ws, fallback |-> FALSE] }

\* pickNode that leaves the slots of the fallback node as they were.
pickNode_KeepFallbackSlots(ws, taskSlot) ==
  LET fits == { n \in DOMAIN ws : ws[n] >= taskSlot }
      pos  == { n \in DOMAIN ws : ws[n] > 0 }
      most == { n \in pos : \A m \in pos : ws[m] <= ws[n] }
  IN IF fits # {}
     THEN { [node |-> n, slots |-> [ws EXCEPT ![n] = @ - taskSlot],
             fallback |-> FALSE] : n \in fits }
     ELSE IF pos # {}
     THEN { [node |-> n, slots |-> ws, fallback |-> TRUE] : n \in most }
     ELSE { [node |-> NoNode, slots |-> ws, fallback |-> FALSE] }

\* The map is walked in an arbitrary order: any node that fits may be the
\* first one met; when none fits, any node with the most positive slots may
\* be the fallback. Each result is the node, the snapshot after the call and
\* whether the node is a fallback.
pickNode(ws, taskSlot) ==
  LET fits == { n \in DOMAIN ws : ws[n] >= taskSlot }
      pos  == { n \in DOMAIN ws : ws[n] > 0 }
      most == { n \in pos : \A m \in pos : ws[m] <= ws[n] }
  IN IF fits # {}
     THEN { [node |-> n, slots |-> [ws EXCEPT ![n] = @ - taskSlot],
             fallback |-> FALSE] : n \in fits }
     ELSE IF pos # {}
     THEN { [node |-> n, slots |-> [ws EXCEPT ![n] = 0], fallback |-> TRUE] :
            n \in most }
     ELSE { [node |-> NoNode, slots |-> ws, fallback |-> FALSE] }

NothingPicked == [n \in WorkerNodes |-> [fit |-> 0, fallback |-> 0]]
NoSlots == [n \in {} |-> 0]
DispIdle == [pc |-> "idle", node |-> NoNode]

\* ------------------------------------------------- run
\* lines 363-370: a pass starts on a non-empty queue with a fresh snapshot.
\* schedule, lines 292-298: the select takes a token of notifyChan or a
\* tick and calls run.
RunStart ==
  /\ "schedule" \notin exited
  /\ runPc = "idle"
  /\ \/ notifyChan > 0 /\ notifyChan' = notifyChan - 1
     \/ UNCHANGED notifyChan
  /\ Len(pendingTasks) # 0
  /\ \E ws \in [registered -> 0..MaxSlots] : workerSlots' = ws
  /\ runPc' = "loop"
  /\ UNCHANGED <<task, enqueued, finalized, pendingTasks, runningTasks,
                 taskLock, aborted, registered, disp, pollPc>>

\* schedule and run, lines 292-295 and 363-366: the select takes a token and
\* run returns at once on an empty queue.
RunEmpty ==
  /\ "schedule" \notin exited
  /\ runPc = "idle"
  /\ notifyChan > 0
  /\ notifyChan' = notifyChan - 1
  /\ Len(pendingTasks) = 0
  /\ UNCHANGED schedVars

\* lines 371-405: one turn of the loop.
RunLoop ==
  /\ runPc = "loop"
  /\ IF ~hasAvailableSlots(workerSlots) \/ pendingTasks = <<>>
     THEN /\ runPc' = "wait"
          /\ UNCHANGED <<pendingTasks, workerSlots, disp>>
     ELSE LET t == Head(pendingTasks) IN
          /\ disp[t].pc = "idle"
          /\ pendingTasks' = Tail(pendingTasks)
          /\ \E r \in pickNode(workerSlots, task[t].slot) :
               /\ workerSlots' = r.slots
               /\ disp' = [disp EXCEPT ![t] = [pc |-> "process",
                                               node |-> r.node]]
          /\ UNCHANGED runPc
  /\ UNCHANGED <<task, enqueued, finalized, runningTasks, taskLock, aborted,
                 registered, pollPc>>

\* processNone: DropTaskMeta succeeds or fails.
processNone(tk) ==
  { [task |-> tk, final |-> TRUE, ok |-> TRUE],
    [task |-> tk, final |-> FALSE, ok |-> FALSE] }

\* processInit that sends the task of a node without a client to retry.
processInit_RetryWithoutClient(tk, nodeID, exist) ==
  IF exist
  THEN { [task |-> [SetState(tk, "inprogress", "") EXCEPT !.node = nodeID],
          final |-> FALSE, ok |-> TRUE] }
  ELSE { [task |-> SetState(tk, "retry", "node does not exist"),
          final |-> FALSE, ok |-> FALSE] }

\* processInit, lines 510-555. PreCheck, UpdateVersion, AssignTask and
\* UpdateMetaBuildingState are the task's own hooks: a failed pre-check
\* finishes the task, UpdateVersion records the node, a failed AssignTask
\* leaves the task in progress with a fail reason.
processInit(tk, nodeID, exist) ==
  { [task |-> SetState(tk, "finished", ""), final |-> FALSE, ok |-> TRUE] }
  \cup
  ( IF ~exist
    THEN { [task |-> tk, final |-> FALSE, ok |-> FALSE] }
    ELSE { [task |-> tk, final |-> FALSE, ok |-> FALSE],
           [task |-> [SetState(tk, "inprogress", "assign task failed")
                        EXCEPT !.node = nodeID],
            final |-> FALSE, ok |-> FALSE],
           [task |-> [SetState(tk, "retry",
                               "update meta building state failed")
                        EXCEPT !.node = nodeID],
            final |-> FALSE, ok |-> FALSE],
           [task |-> [SetState(tk, "inprogress", "") EXCEPT !.node = nodeID],
            final |-> FALSE, ok |-> TRUE] } )

\* process, lines 409-423.
process(tk, nodeID, exist) ==
  CASE tk.state = "none" -> processNone(tk)
    [] tk.state = "init" -> processInit(tk, nodeID, exist)
    [] OTHER -> { [task |-> tk, final |-> FALSE, ok |-> TRUE] }

\* lines 385-392: the goroutine of a popped task processes it under the lock.
DispProcess(t) ==
  /\ disp[t].pc = "process"
  /\ IF disp[t].node # NoNode
     THEN /\ taskLock[t] = "free"
          /\ \E r \in process(task[t], disp[t].node,
                              disp[t].node \in registered) :
               /\ task' = [task EXCEPT ![t] = r.task]
               /\ finalized' = IF r.final THEN finalized \cup {t}
                               ELSE finalized
     ELSE UNCHANGED <<task, finalized>>
  /\ disp' = [disp EXCEPT ![t].pc = "post"]
  /\ UNCHANGED <<enqueued, pendingTasks, runningTasks, taskLock, aborted,
                 registered, runPc, workerSlots, pollPc>>

\* lines 394-403: by its state the task goes back to pending or to running.
DispPost(t) ==
  /\ disp[t].pc = "post"
  /\ CASE task[t].state = "none" ->
            \E r \in processNone(task[t]) :
              /\ finalized' = IF r.final THEN finalized \cup {t}
                              ELSE finalized
              /\ pendingTasks' = IF r.ok THEN pendingTasks
                                 ELSE Push(pendingTasks, t)
              /\ UNCHANGED runningTasks
       [] task[t].state = "init" ->
            /\ pendingTasks' = Push(pendingTasks, t)
            /\ UNCHANGED <<runningTasks, finalized>>
       [] OTHER ->
            /\ runningTasks' = runningTasks \cup {t}
            /\ UNCHANGED <<pendingTasks, finalized>>
  /\ disp' = [disp EXCEPT ![t] = DispIdle]
  /\ UNCHANGED <<task, enqueued, taskLock, aborted, registered, runPc,
                 workerSlots, pollPc>>

\* run that returns without waiting for its goroutines.
RunEnd_NoWait ==
  /\ runPc = "wait"
  /\ runPc' = "idle"
  /\ workerSlots' = NoSlots
  /\ UNCHANGED <<task, enqueued, finalized, pendingTasks, runningTasks,
                 taskLock, aborted, registered, disp, pollPc>>

\* line 406: the pass ends when every goroutine it started is done.
RunEnd ==
  /\ runPc = "wait"
  /\ \A t \in Tasks : disp[t].pc = "idle"
  /\ runPc' = "idle"
  /\ workerSlots' = NoSlots
  /\ UNCHANGED <<task, enqueued, finalized, pendingTasks, runningTasks,
                 taskLock, aborted, registered, disp, pollPc>>

\* ------------------------------------------------- the polling loop
\* Each outcome of a poll handler: the task after it, whether the final
\* record was persisted, whether the task was pushed to pending, the
\* handler's return value, and the calls processFinished made, in order.
Outcome(tk, final, push, suc, calls) ==
  [task |-> tk, final |-> final, push |-> push, suc |-> suc, calls |-> calls]

\* processFinished that cleans the worker before it persists the record.
processFinished_DropFirst(tk, exist) ==
  IF exist
  THEN { Outcome(tk, FALSE, FALSE, FALSE, <<"DropTaskOnWorker failed">>),
         Outcome(tk, FALSE, FALSE, FALSE,
                 <<"DropTaskOnWorker", "SetJobInfo failed">>),
         Outcome(tk, TRUE, FALSE, TRUE, <<"DropTaskOnWorker", "SetJobInfo">>) }
  ELSE { Outcome(tk, FALSE, FALSE, FALSE, <<"SetJobInfo failed">>),
         Outcome(tk, TRUE, FALSE, TRUE, <<"SetJobInfo">>) }

\* processFinished, lines 566-590: SetJobInfo fails, or succeeds and then
\* DropTaskOnWorker (on a registered node) fails or succeeds.
processFinished(tk, exist) ==
  { Outcome(tk, FALSE, FALSE, FALSE, <<"SetJobInfo failed">>) }
  \cup
  ( IF exist
    THEN { Outcome(tk, TRUE, FALSE, FALSE,
                   <<"SetJobInfo", "DropTaskOnWorker failed">>),
           Outcome(tk, TRUE, FALSE, TRUE, <<"SetJobInfo", "DropTaskOnWorker">>) }
    ELSE { Outcome(tk, TRUE, FALSE, TRUE, <<"SetJobInfo">>) } )

\* processRetry, lines 592-607.
processRetry(tk, exist) ==
  { Outcome(SetState(tk, "init", ""), FALSE, TRUE, TRUE, <<>>) }
  \cup (IF exist THEN { Outcome(tk, FALSE, FALSE, FALSE, <<>>) } ELSE {})

\* processInProgress that fails the task of a lost node.
processInProgress_NodeLostFails(tk, exist) ==
  IF exist
  THEN { Outcome(tk, FALSE, FALSE, FALSE, <<>>),
         Outcome(SetState(tk, "retry", "worker retry"),
                 FALSE, FALSE, FALSE, <<>>) }
       \cup processFinished(SetState(tk, "finished", ""), exist)
       \cup processFinished(SetState(tk, "failed", "worker failed"), exist)
  ELSE { Outcome(SetState(tk, "failed", "node does not exist"),
                 FALSE, FALSE, FALSE, <<>>) }

\* processInProgress, lines 609-622: QueryResult leaves the task in progress
\* or moves it to retry, finished or failed.
processInProgress(tk, exist) ==
  IF exist
  THEN { Outcome(tk, FALSE, FALSE, FALSE, <<>>),
         Outcome(SetState(tk, "retry", "worker retry"),
                 FALSE, FALSE, FALSE, <<>>) }
       \cup processFinished(SetState(tk, "finished", ""), exist)
       \cup processFinished(SetState(tk, "failed", "worker failed"), exist)
  ELSE { Outcome(SetState(tk, "retry", "node does not exist"),
                 FALSE, FALSE, FALSE, <<>>) }

\* checkProcessingTask, lines 347-359.
checkProcessingTask(tk, exist) ==
  CASE tk.state = "inprogress" -> processInProgress(tk, exist)
    [] tk.state = "retry" -> processRetry(tk, exist)
    [] tk.state \in {"finished", "failed"} -> processFinished(tk, exist)
    [] OTHER -> { Outcome(tk, FALSE, FALSE, FALSE, <<>>) }

\* lines 320-331: a round starts one goroutine per running task.
PollStart ==
  /\ "checkProcessingTasksLoop" \notin exited
  /\ \A t \in Tasks : pollPc[t] = "idle"
  /\ runningTasks # {}
  /\ pollPc' = [t \in Tasks |-> IF t \in runningTasks THEN "check" ELSE "idle"]
  /\ UNCHANGED <<task, enqueued, finalized, pendingTasks, runningTasks,
                 taskLock, aborted, registered, runPc, workerSlots,
                 disp>>

\* lines 336-338: the task is checked under its lock.
PollCheckWith(t, r) ==
  /\ pollPc[t] = "check"
  /\ taskLock[t] = "free"
  /\ task' = [task EXCEPT ![t] = r.task]
  /\ finalized' = IF r.final THEN finalized \cup {t} ELSE finalized
  /\ pendingTasks' = IF r.push THEN Push(pendingTasks, t) ELSE pendingTasks
  /\ pollPc' = [pollPc EXCEPT ![t] = IF r.suc THEN "remove" ELSE "idle"]
  /\ UNCHANGED <<enqueued, runningTasks, taskLock, aborted, registered, runPc,
                 workerSlots, disp>>

PollCheck(t) ==
  \E r \in checkProcessingTask(task[t], task[t].node \in registered) :
    PollCheckWith(t, r)

\* lines 339-341: a task whose check succeeded leaves the running map.
PollRemove(t) ==
  /\ pollPc[t] = "remove"
  /\ runningTasks' = runningTasks \ {t}
  /\ pollPc' = [pollPc EXCEPT ![t] = "idle"]
  /\ UNCHANGED <<task, enqueued, finalized, pendingTasks, taskLock, aborted,
                 registered, runPc, workerSlots, disp>>

\* ------------------------------------------------- the key lock, step by step
\* The same goroutines with the Lock call, the section under the lock and
\* the Unlock call told apart.
\* A key lock that is handed out whoever holds it.
CanLock_Always(t) == TRUE

\* taskLock.Lock(taskID) returns only when nobody holds the key.
CanLock(t) == taskLock[t] = "free"

\* run, lines 387-388: the goroutine of a task with a node takes the lock.
\* The loop pops a task only while some node of the snapshot has positive
\* slots, so pickNode always returns a node.
DispLock(t) ==
  /\ disp[t].pc = "process"
  /\ disp[t].node # NoNode
  /\ CanLock(t)
  /\ taskLock' = [taskLock EXCEPT ![t] = "dispatch"]
  /\ disp' = [disp EXCEPT ![t].pc = "locked"]
  /\ UNCHANGED <<task, enqueued, finalized, pendingTasks, runningTasks,
                 aborted, registered, runPc, workerSlots, pollPc>>

\* run, lines 389-390: process, then Unlock.
DispSection(t) ==
  /\ disp[t].pc = "locked"
  /\ \E r \in process(task[t], disp[t].node, disp[t].node \in registered) :
       /\ task' = [task EXCEPT ![t] = r.task]
       /\ finalized' = IF r.final THEN finalized \cup {t} ELSE finalized
  /\ taskLock' = [taskLock EXCEPT ![t] = "free"]
  /\ disp' = [disp EXCEPT ![t].pc = "post"]
  /\ UNCHANGED <<enqueued, pendingTasks, runningTasks, aborted, registered,
                 runPc, workerSlots, pollPc>>

\* checkProcessingTasks, line 336: the goroutine of a task takes the lock.
PollLock(t) ==
  /\ pollPc[t] = "check"
  /\ CanLock(t)
  /\ taskLock' = [taskLock EXCEPT ![t] = "poll"]
  /\ pollPc' = [pollPc EXCEPT ![t] = "locked"]
  /\ UNCHANGED <<task, enqueued, finalized, pendingTasks, runningTasks,
                 aborted, registered, runPc, workerSlots, disp>>

\* checkProcessingTasks, lines 337-338: checkProcessingTask, then Unlock.
PollSection(t) ==
  /\ pollPc[t] = "locked"
  /\ \E r \in checkProcessingTask(task[t], task[t].node \in registered) :
       /\ task' = [task EXCEPT ![t] = r.task]
       /\ finalized' = IF r.final THEN finalized \cup {t} ELSE finalized
       /\ pendingTasks' = IF r.push THEN Push(pendingTasks, t)
                          ELSE pendingTasks
       /\ pollPc' = [pollPc EXCEPT ![t] = IF r.suc THEN "remove" ELSE "idle"]
  /\ taskLock' = [taskLock EXCEPT ![t] = "free"]
  /\ UNCHANGED <<enqueued, runningTasks, aborted, registered, runPc,
                 workerSlots, disp>>

\* ------------------------------------------------- Start and Stop
\* Start, lines 103-108: the three loops of the scheduler.
Loops == {"schedule", "collectTaskMetrics", "checkProcessingTasksLoop"}

\* Stop, lines 110-113: the context is cancelled, then Stop waits for the
\* three loops.
StopCancel ==
  /\ stopPc = "idle"
  /\ ctxDone' = TRUE
  /\ stopPc' = "wait"
  /\ UNCHANGED <<exited, schedVars>>

StopReturn ==
  /\ stopPc = "wait"
  /\ exited = Loops
  /\ stopPc' = "returned"
  /\ UNCHANGED <<ctxDone, exited, schedVars>>

\* schedule, lines 288-299: back at its select after a pass, the loop takes
\* the ctx.Done case.
ScheduleExit ==
  /\ ctxDone
  /\ "schedule" \notin exited
  /\ runPc = "idle"
  /\ exited' = exited \cup {"schedule"}
  /\ UNCHANGED <<ctxDone, stopPc, schedVars>>

\* checkProcessingTasksLoop, lines 308-316: the same between two rounds.
CheckLoopExit ==
  /\ ctxDone
  /\ "checkProcessingTasksLoop" \notin exited
  /\ \A t \in Tasks : pollPc[t] = "idle"
  /\ exited' = exited \cup {"checkProcessingTasksLoop"}
  /\ UNCHANGED <<ctxDone, stopPc, schedVars>>

\* collectTaskMetrics, lines 430-434; between two selects the loop only
\* reads the tasks.
MetricsExit ==
  /\ ctxDone
  /\ "collectTaskMetrics" \notin exited
  /\ exited' = exited \cup {"collectTaskMetrics"}
  /\ UNCHANGED <<ctxDone, stopPc, schedVars>>

\* ------------------------------------------------ garbage collector
\* The meta holds one insert channel and the segments of that channel.  A
\* log path is <<kind, segment id, name>>; a segment references one insert
\* log and one stats log, and segment 1 a delta log as well.  No index is dropped here, so GetDeletedIndexes is empty and
\* recycleUnusedIndexes (lines 476-486) has nothing to remove.
Restrict(f, S) == [x \in S |-> f[x]]

Binlogs(id) == { <<"insert_log", id, "log">> }
Statslogs(id) == { <<"stats_log", id, "log">> }
Deltalogs(id) == IF id = 1 THEN { <<"delta_log", id, "log">> } ELSE {}

\* getLogs, lines 423-437.
getLogs(id) == Binlogs(id) \cup Statslogs(id) \cup Deltalogs(id)

\* The paths no segment references: what an interrupted write leaves
\* behind.  ParseSegmentIDByBinlog rejects the name "garbage".
ResiduePaths ==
  (Kinds \X ResidueSegs \X {"tmp"}) \cup { <<"insert_log", 1, "garbage">> }

ParseSegmentIDByBinlog(p) == [ok |-> p[3] # "garbage", id |-> p[2]]

\* ---- the rest of the data coordinator and the clock
Tick ==
  /\ now < MaxTime
  /\ now' = now + 1
  /\ cleanRuns' = "none"
  /\ UNCHANGED <<segments, lastSegID, segIndexes, indexFiles, channelExists,
                 channelCP, bucket, pauseUntil, lastScan, gcDropped>>

NewSegment(dml, from) ==
  [state |-> "Flushed", droppedAt |-> 0, dmlTs |-> dml, from |-> from,
   compacted |-> FALSE]

\* A flushed segment appears: its logs are written, then it is registered.
Flush(dml) ==
  /\ channelExists
  /\ lastSegID + 1 \in SegIDs
  /\ LET id == lastSegID + 1 IN
       /\ lastSegID' = id
       /\ segments' = segments @@ (id :> NewSegment(dml, {}))
       /\ bucket' = bucket @@ [p \in getLogs(id) |-> now]
  /\ cleanRuns' = "none"
  /\ UNCHANGED <<now, segIndexes, indexFiles, channelExists, channelCP,
                 pauseUntil, lastScan, gcDropped>>

Flushed == { id \in DOMAIN segments : segments[id].state = "Flushed" }

\* A compaction of the flushed segments from into n result segments, each
\* listing every source in CompactionFrom; the sources are dropped and
\* flagged compacted.
Compact(from, n) ==
  /\ from # {} /\ from \subseteq Flushed
  /\ lastSegID + n \in SegIDs
  /\ LET to == (lastSegID + 1)..(lastSegID + n)
         dml == CHOOSE d \in { segments[f].dmlTs : f \in from } :
                  \A f \in from : segments[f].dmlTs <= d
     IN /\ lastSegID' = lastSegID + n
        /\ segments' =
             [id \in DOMAIN segments \cup to |->
                IF id \in to THEN NewSegment(dml, from)
                ELSE IF id \in from
                     THEN [segments[id] EXCEPT !.state = "Dropped",
                                               !.droppedAt = now,
                                               !.compacted = TRUE]
                     ELSE segments[id]]
        /\ bucket' = bucket @@ [p \in UNION { getLogs(id) : id \in to } |-> now]
  /\ cleanRuns' = "none"
  /\ UNCHANGED <<now, segIndexes, indexFiles, channelExists, channelCP,
                 pauseUntil, lastScan, gcDropped>>

\* A flushed segment is dropped without compaction (its partition or
\* collection goes away).
MarkDropped(id) ==
  /\ id \in Flushed
  /\ segments' = [segments EXCEPT ![id].state = "Dropped",
                                  ![id].droppedAt = now]
  /\ cleanRuns' = "none"
  /\ UNCHANGED <<now, lastSegID, segIndexes, indexFiles, channelExists,
                 channelCP, bucket, pauseUntil, lastScan, gcDropped>>

\* The index of a segment is built: its record and its files appear.
BuildIndex(id) ==
  /\ id \in DOMAIN segments
  /\ id \notin segIndexes
  /\ segIndexes' = segIndexes \cup {id}
  /\ indexFiles' = indexFiles \cup {id}
  /\ cleanRuns' = "none"
  /\ UNCHANGED <<now, segments, lastSegID, channelExists, channelCP, bucket,
                 pauseUntil, lastScan, gcDropped>>

AdvanceCheckpoint ==
  /\ channelExists
  /\ channelCP < MaxCheckpoint
  /\ channelCP' = channelCP + 1
  /\ cleanRuns' = "none"
  /\ UNCHANGED <<now, segments, lastSegID, segIndexes, indexFiles,
                 channelExists, bucket, pauseUntil, lastScan, gcDropped>>

\* The channel is removed from the catalog (its collection is dropped).
DropChannel ==
  /\ channelExists
  /\ channelExists' = FALSE
  /\ cleanRuns' = "none"
  /\ UNCHANGED <<now, segments, lastSegID, segIndexes, indexFiles, channelCP,
                 bucket, pauseUntil, lastScan, gcDropped>>

\* An interrupted write leaves a file no segment references.
WriteResidue(p) ==
  /\ p \in ResiduePaths \ DOMAIN bucket
  /\ Cardinality(ResiduePaths \cap DOMAIN bucket) < MaxResidue
  /\ bucket' = bucket @@ (p :> now)
  /\ cleanRuns' = "none"
  /\ UNCHANGED <<now, segments, lastSegID, segIndexes, indexFiles,
                 channelExists, channelCP, pauseUntil, lastScan, gcDropped>>

\* ---- the command channel, lines 171-183
\* Pause that stores the new deadline whatever the old one is.
Pause_Overwrite(duration) ==
  /\ pauseUntil' = now + duration
  /\ cleanRuns' = "none"
  /\ UNCHANGED <<now, segments, lastSegID, segIndexes, indexFiles,
                 channelExists, channelCP, bucket, lastScan, gcDropped>>

\* Pause: pauseUntil moves only forward.
Pause(duration) ==
  /\ LET until == now + duration IN
       pauseUntil' = IF until > pauseUntil THEN until ELSE pauseUntil
  /\ cleanRuns' = "none"
  /\ UNCHANGED <<now, segments, lastSegID, segIndexes, indexFiles,
                 channelExists, channelCP, bucket, lastScan, gcDropped>>

\* Resume: pauseUntil is reset to the zero time.
Resume ==
  /\ pauseUntil' = 0
  /\ cleanRuns' = "none"
  /\ UNCHANGED <<now, segments, lastSegID, segIndexes, indexFiles,
                 channelExists, channelCP, bucket, lastScan, gcDropped>>

\* ---- the callers of Pause and Resume, lines 111-146
NoCall == [op |-> "none", duration |-> 0, pc |-> "idle", result |-> "none",
           applied |-> FALSE]

\* Pause, lines 112-115 and 116-122: with GC disabled the call returns nil
\* at once, otherwise it offers the command on cmdCh.
CallPause(duration) ==
  /\ gcCall.pc \in {"idle", "returned"}
  /\ gcCall' = IF gcEnabled
               THEN [op |-> "pause", duration |-> duration, pc |-> "sending",
                     result |-> "none", applied |-> FALSE]
               ELSE [op |-> "pause", duration |-> duration, pc |-> "returned",
                     result |-> "nil", applied |-> FALSE]
  /\ UNCHANGED <<gcVars, gcEnabled>>

\* Resume, lines 131-134 and 135-140: with GC disabled the call returns an
\* error.
CallResume ==
  /\ gcCall.pc \in {"idle", "returned"}
  /\ gcCall' = IF gcEnabled
               THEN [op |-> "resume", duration |-> 0, pc |-> "sending",
                     result |-> "none", applied |-> FALSE]
               ELSE [op |-> "resume", duration |-> 0, pc |-> "returned",
                     result |-> "unavailable", applied |-> FALSE]
  /\ UNCHANGED <<gcVars, gcEnabled>>

\* lines 125-126 and 143-144: the context of the caller is done before the
\* worker takes the command.
CallCancel ==
  /\ gcCall.pc = "sending"
  /\ gcCall' = [gcCall EXCEPT !.pc = "returned", !.result = "ctx"]
  /\ UNCHANGED <<gcVars, gcEnabled>>

\* work, lines 170-184: the worker takes the command, applies it and
\* closes done.
WorkerCmd ==
  /\ gcEnabled
  /\ gcCall.pc = "sending"
  /\ IF gcCall.op = "pause" THEN Pause(gcCall.duration) ELSE Resume
  /\ gcCall' = [gcCall EXCEPT !.pc = "done", !.applied = TRUE]
  /\ UNCHANGED gcEnabled

\* lines 123-124 and 141-142: done is closed and the call returns nil.
CallReturn ==
  /\ gcCall.pc = "done"
  /\ gcCall' = [gcCall EXCEPT !.pc = "returned", !.result = "nil"]
  /\ UNCHANGED <<gcVars, gcEnabled>>

\* ---- segment GC
\* isExpire that holds for every drop time.
isExpire_NoTolerance(dropts) == TRUE

\* isExpire, lines 418-421.
isExpire(dropts) == now - dropts > dropTolerance

\* checkDroppedSegmentGC without the comparison with the checkpoint.
checkDroppedSegmentGC_NoCheckpoint(segment, childSegment, indexSet, cpTimestamp) ==
  LET isCompacted == childSegment # NoChild \/ segment.compacted IN
    IF isCompacted
    THEN ~(childSegment # NoChild /\ childSegment \notin indexSet)
    ELSE isExpire(segment.droppedAt)

\* checkDroppedSegmentGC, lines 300-338.
checkDroppedSegmentGC(segment, childSegment, indexSet, cpTimestamp) ==
  LET isCompacted == childSegment # NoChild \/ segment.compacted IN
    /\ IF isCompacted
       THEN ~(childSegment # NoChild /\ childSegment \notin indexSet)
       ELSE isExpire(segment.droppedAt)
    /\ ~(channelExists /\ segment.dmlTs > cpTimestamp)

\* clearEtcd, lines 341-351: the dropped segments of the snapshot.
drops == { id \in DOMAIN segments : segments[id].state = "Dropped" }

\* The segments some segment lists in CompactionFrom.
Sources == UNION { segments[id].from : id \in DOMAIN segments }

\* clearEtcd, lines 354-356: compactTo keeps one segment per source, the one
\* the loop over the snapshot meets last; the snapshot comes out of a map,
\* so any segment listing the source can be that one.
CompactToMaps ==
  { ct \in [Sources -> DOMAIN segments] :
      \A f \in Sources : f \in segments[ct[f]].from }

childOf(compactTo, id) ==
  IF id \in DOMAIN compactTo THEN compactTo[id] ELSE NoChild

\* FilterInIndexedSegments: the segments among ids that have their index.
FilterInIndexedSegments(ids) == ids \cap segIndexes

\* clearEtcd, lines 359-386: the dropped segments checkDroppedSegmentGC lets
\* through.
GcPass(compactTo) ==
  LET droppedCompactTo == { compactTo[id] : id \in drops \cap Sources }
      indexedSet == FilterInIndexedSegments(droppedCompactTo)
  IN { id \in drops :
         checkDroppedSegmentGC(segments[id], childOf(compactTo, id),
                               indexedSet, channelCP) }

\* The logs of those segments that are in the bucket.
GcLogs(compactTo) ==
  UNION { getLogs(id) : id \in GcPass(compactTo) } \cap DOMAIN bucket

\* removeLogs, lines 439-475: a Remove that fails cancels the context and
\* makes removeLogs return false, unless the error is a minio.ErrorResponse
\* whose Code is "NoSuchKey" or empty (lines 454-460).  kept are the logs
\* left in the bucket by a failure that cancels (or because the pool was
\* cancelled before their turn), swallowed the logs left in the bucket by
\* an error response without a code.
removeLogs(logs, kept, swallowed) == logs \cap kept = {}

\* clearEtcd, lines 340-416.  dropFails are the segments whose DropSegment
\* failed; cpFails says DropChannelCheckpoint failed.  A segment leaves the
\* meta when removeLogs returned true and DropSegment succeeded.
clearEtcd(compactTo, kept, swallowed, dropFails, cpFails) ==
  LET pass == GcPass(compactTo)
      gone == { id \in pass : /\ removeLogs(getLogs(id), kept, swallowed)
                              /\ id \notin dropFails }
      emptied == \E id \in pass :
                   DOMAIN segments \subseteq { g \in gone : g <= id }
  IN /\ bucket' = Restrict(bucket, DOMAIN bucket
                                     \ (GcLogs(compactTo) \ (kept \cup swallowed)))
     /\ segments' = Restrict(segments, DOMAIN segments \ gone)
     /\ channelCP' = IF emptied /\ ~channelExists /\ ~cpFails
                     THEN 0 ELSE channelCP
     /\ gcDropped' = gcDropped @@
                       [id \in gone |-> [seg |-> segments[id],
                                         child |-> childOf(compactTo, id)]]

\* recycleUnusedSegIndexes, lines 488-502: the records of segments that left
\* the meta are removed, unless RemoveSegmentIndex fails.
recycleUnusedSegIndexes(fails) ==
  segIndexes' = IF fails THEN segIndexes ELSE segIndexes \cap DOMAIN segments'

\* recycleUnusedIndexFiles, lines 505-579: a build directory without a
\* record is removed, unless RemoveWithPrefix fails.  No file is written
\* under a build directory besides the files of its record.
recycleUnusedIndexFiles(fails) ==
  indexFiles' = IF fails THEN indexFiles ELSE indexFiles \cap segIndexes'

\* What can go wrong in one tick: logs of one segment are kept (by a
\* failure that cancels, or by one that is swallowed), or the
\* DropSegment of one segment fails, or DropChannelCheckpoint fails, or the
\* removal of index records or of index files fails.  In any one tick at
\* most one of these happens.
NoError == [kept |-> {}, swallowed |-> {}, dropFails |-> {},
            cpFails |-> FALSE, index |-> "none"]

GcErrors(compactTo) ==
  {NoError}
  \cup { [NoError EXCEPT !.kept = k] :
           k \in UNION { SUBSET (getLogs(id) \cap DOMAIN bucket) \ {{}} :
                           id \in GcPass(compactTo) } }
  \cup { [NoError EXCEPT !.swallowed = k] :
           k \in UNION { SUBSET (getLogs(id) \cap DOMAIN bucket) \ {{}} :
                           id \in GcPass(compactTo) } }
  \cup { [NoError EXCEPT !.dropFails = {id}] : id \in GcPass(compactTo) }
  \cup (IF channelExists \/ GcPass(compactTo) = {} THEN {}
        ELSE { [NoError EXCEPT !.cpFails = TRUE] })
  \cup (IF indexFiles = {} THEN {}
        ELSE { [NoError EXCEPT !.index = x] : x \in {"records", "files"} })

\* work, the ticker case, lines 158-166.
GcTick ==
  /\ IF now < pauseUntil
     THEN /\ cleanRuns' = "none"
          /\ UNCHANGED <<segments, segIndexes, indexFiles, channelCP, bucket,
                         gcDropped>>
     ELSE \E compactTo \in CompactToMaps :
          \E e \in GcErrors(compactTo) :
            /\ clearEtcd(compactTo, e.kept, e.swallowed, e.dropFails,
                         e.cpFails)
            /\ recycleUnusedSegIndexes(e.index = "records")
            /\ recycleUnusedIndexFiles(e.index = "files")
            /\ cleanRuns' = IF e = NoError THEN "meta" ELSE "none"
  /\ UNCHANGED <<now, lastSegID, channelExists, pauseUntil, lastScan>>

\* ---- the residue scan
\* The checker that looks for the path of an insert log as well.
checker_InsertByPath(segmentID, objectPath, prefix) ==
  /\ segmentID \in DOMAIN segments
  /\ CASE prefix = "insert_log" -> objectPath \in Binlogs(segmentID)
       [] prefix = "stats_log" -> objectPath \in Statslogs(segmentID)
       [] prefix = "delta_log" -> objectPath \in Deltalogs(segmentID)

\* scan, the checker, lines 219-245: the segment is found and, for a stats
\* or delta log, lists the path.
checker(segmentID, objectPath, prefix) ==
  /\ segmentID \in DOMAIN segments
  /\ CASE prefix = "insert_log" -> TRUE
       [] prefix = "stats_log" -> objectPath \in Statslogs(segmentID)
       [] prefix = "delta_log" -> objectPath \in Deltalogs(segmentID)

\* The keys of scan without the test of the modification time.
removedKeys_AnyAge(listed) ==
  { p \in DOMAIN bucket :
      /\ p[1] \in listed
      /\ ParseSegmentIDByBinlog(p).ok
      /\ ~checker(ParseSegmentIDByBinlog(p).id, p, p[1]) }

\* scan, lines 247-285: the keys Remove is called with, when the prefixes
\* in listed are the ones ListWithPrefix could list.
removedKeys(listed) ==
  { p \in DOMAIN bucket :
      /\ p[1] \in listed
      /\ ~(now - bucket[p] <= missingTolerance)
      /\ ParseSegmentIDByBinlog(p).ok
      /\ ~checker(ParseSegmentIDByBinlog(p).id, p, p[1]) }

\* work, the scanTicker case, lines 167-169, and scan, lines 201-298.
\* failed are the keys whose Remove returned an error.
\* The prefixes ListWithPrefix lists without an error, lines 250-255: all
\* of them, or all but one that holds objects.  In any one scan at most one
\* prefix meets a listing error.
ListedChoices ==
  {Kinds} \cup { Kinds \ {p[1]} : p \in DOMAIN bucket }

scan(listed, failed) ==
  /\ bucket' = Restrict(bucket, DOMAIN bucket \ (removedKeys(listed) \ failed))
  /\ cleanRuns' = IF cleanRuns = "meta" /\ listed = Kinds /\ failed = {}
                  THEN "full" ELSE "none"
  /\ UNCHANGED <<now, segments, lastSegID, segIndexes, indexFiles,
                 channelExists, channelCP, pauseUntil, gcDropped>>

ScanTick ==
  \E listed \in ListedChoices :
  \E failed \in SUBSET removedKeys(listed) :
    scan(listed, failed) /\ UNCHANGED lastScan

\* The same, with the record of what the scan did.
TrackedScanTick ==
  \E listed \in ListedChoices :
  \E failed \in SUBSET removedKeys(listed) :
    /\ scan(listed, failed)
    /\ lastScan' = [at |-> now, listed |-> listed,
                    removedKeys |-> removedKeys(listed)]

\* The collector over an empty meta and an empty bucket.
GcStart ==
  /\ gcCall = NoCall
  /\ now = 0
  /\ segments = <<>>
  /\ lastSegID = 0
  /\ segIndexes = {}
  /\ indexFiles = {}
  /\ channelExists = TRUE
  /\ channelCP = 0
  /\ bucket = <<>>
  /\ pauseUntil = 0
  /\ lastScan = [at |-> -1, listed |-> {}, removedKeys |-> {}]
  /\ gcDropped = <<>>
  /\ cleanRuns = "none"

\* ------------------------------------------------- reloadFromMeta
\* The persisted task records: the job kind, the persisted state, IsDeleted
\* (segment indexes only) and, for a stats task, what meta and the
\* compaction handler answer about its segment: "gone" (GetHealthySegment
\* is nil and CheckAndSetSegmentsCompacting finds no segment), "compacting"
\* (canDo is false), "stating" (checkAndSetSegmentStating is false).
JobKinds == {"index", "analyze", "stats"}
JobStates == {"none", "init", "inprogress", "retry", "finished", "failed"}
\* The persisted node id: a task that was never dispatched has none, any
\* other one has that of the first worker.
RecordNode(st) == IF st \in {"none", "init"} THEN NoNode ELSE 1
MetaRecords ==
  {NoRecord}
  \cup { [kind |-> "index", state |-> st, deleted |-> d, segment |-> "healthy",
          node |-> RecordNode(st)] : st \in JobStates, d \in BOOLEAN }
  \cup { [kind |-> "analyze", state |-> st, deleted |-> FALSE,
          segment |-> "healthy", node |-> RecordNode(st)] : st \in JobStates }
  \cup { [kind |-> "stats", state |-> st, deleted |-> FALSE, segment |-> sg,
          node |-> RecordNode(st)] :
         st \in JobStates, sg \in {"healthy", "gone", "compacting", "stating"} }

\* The task object built from a record: the slot is computed from the size
\* of the segment and is zero for an analyze task and for a stats task
\* without a healthy segment.
LoadedTask(rec, state, reason) ==
  [state |-> state, reason |-> reason, node |-> rec.node,
   slot |-> IF rec.kind = "analyze" \/ rec.segment = "gone" THEN 0 ELSE 1]

\* What the loop body does with one record that sends tasks in retry to
\* the pending queue.
loadOne_RetryToPending(rec) ==
  CASE rec.kind = "absent" \/ rec.deleted ->
         { [where |-> "skip", task |-> NoTask, dropped |-> FALSE] }
    [] OTHER ->
         { [where |-> IF rec.state \in {"none", "init", "retry"} THEN "pending"
                      ELSE IF rec.state = "inprogress" THEN "running"
                      ELSE "skip",
            task |-> LoadedTask(rec, rec.state, ""), dropped |-> FALSE] }

\* What the loop body does with one record, lines 119-145, 150-172 and
\* 177-229: a stats task in progress or in retry whose segment cannot be
\* taken is dropped from meta, or kept as failed when the drop fails.
loadOne(rec) ==
  CASE rec.kind = "absent" \/ rec.deleted ->
         { [where |-> "skip", task |-> NoTask, dropped |-> FALSE] }
    [] rec.state \in {"none", "init"} ->
         { [where |-> "pending", task |-> LoadedTask(rec, rec.state, ""),
            dropped |-> FALSE] }
    [] rec.state \in {"inprogress", "retry"} ->
         IF rec.kind = "stats" /\ rec.segment # "healthy"
         THEN { [where |-> "skip", task |-> NoTask, dropped |-> TRUE],
                [where |-> "running",
                 task |-> LoadedTask(rec, "failed",
                            IF rec.segment = "stating"
                            THEN "segment is not exist or is l0 compacting"
                            ELSE "segment is not exist or is compacting"),
                 dropped |-> FALSE] }
         ELSE { [where |-> "running", task |-> LoadedTask(rec, rec.state, ""),
                 dropped |-> FALSE] }
    [] OTHER ->
         { [where |-> "skip", task |-> NoTask, dropped |-> FALSE] }

\* The three loops run one after the other and each walks a map: the
\* pending queue holds the index tasks, then the analyze tasks, then the
\* stats tasks, in any order within a kind.
KindRank(k) == CASE k = "index" -> 1 [] k = "analyze" -> 2 [] OTHER -> 3
LoadOrders(meta, ids) ==
  { q \in [1..Cardinality(ids) -> ids] :
      /\ \A i, j \in DOMAIN q : i # j => q[i] # q[j]
      /\ \A i, j \in DOMAIN q :
           i < j => KindRank(meta[q[i]].kind) <= KindRank(meta[q[j]].kind) }

reloadFromMeta(meta) ==
  LET results == UNION { loadOne(meta[t]) : t \in Tasks }
      picks == { f \in [Tasks -> results] :
                   \A t \in Tasks : f[t] \in loadOne(meta[t]) }
  IN UNION { { [pending |-> q,
                running |-> { t \in Tasks : f[t].where = "running" },
                task |-> [t \in Tasks |-> f[t].task],
                dropped |-> { t \in Tasks : f[t].dropped }] :
               q \in LoadOrders(meta,
                                { t \in Tasks : f[t].where = "pending" }) } :
             f \in picks }

\* newTaskScheduler, line 99.
Reload ==
  /\ ~reloaded
  /\ reloaded' = TRUE
  /\ \E r \in reloadFromMeta(taskMeta) :
       /\ pendingTasks' = r.pending
       /\ runningTasks' = r.running
       /\ task' = r.task
       /\ enqueued' = Queued(r.pending) \cup r.running
       /\ taskMeta' = [t \in Tasks |->
                         IF t \in r.dropped THEN NoRecord ELSE taskMeta[t]]
  /\ UNCHANGED <<finalized, taskLock, aborted, registered, runPc,
                 workerSlots, disp, pollPc, dropMetaCalls>>

\* ------------------------------------------------- specifications
\* The scheduler over empty metadata: reloadFromMeta finds no task.
SchedStart ==
  /\ task = [t \in Tasks |-> NoTask]
  /\ enqueued = {}
  /\ finalized = {}
  /\ pendingTasks = <<>>
  /\ runningTasks = {}
  /\ taskLock = [t \in Tasks |-> "free"]
  /\ aborted = {}
  /\ registered = {}
  /\ runPc = "idle"
  /\ workerSlots = NoSlots
  /\ querySlots = NoSlots
  /\ picked = NothingPicked
  /\ disp = [t \in Tasks |-> DispIdle]
  /\ pollPc = [t \in Tasks |-> "idle"]
  /\ ctxDone = FALSE
  /\ stopPc = "idle"
  /\ exited = {}
  /\ finishLog = [t \in Tasks |-> <<>>]
  /\ notifyChan = 0
  /\ dropMetaCalls = [t \in Tasks |-> 0]

\* Nothing is persisted: reloadFromMeta has run and has found no task.
MetaStart ==
  /\ taskMeta = [t \in Tasks |-> NoRecord]
  /\ reloaded = TRUE

\* The channel manager recovered from an empty catalog.
ManagerStart ==
  /\ catalog = [c \in {} |-> newPChannelMeta(c, "RO")]
  /\ catalogVersion = NilVersion
  /\ LET cm == RecoverChannelManager(catalog, catalogVersion, Channels) IN
       /\ channels = cm.channels
       /\ version = cm.version
       /\ streamingVersion = cm.streamingVersion
  /\ streamingEnableNotifiers = <<>>
  /\ notifiers = NoNotifiers
  /\ lastAssign = <<>>
  /\ wpc = WatchIdle
  /\ lastVersion = NoVersion
  /\ received = NoViews

ChanInit ==
  /\ SchedStart
  /\ MetaStart
  /\ GcStart
  /\ gcEnabled = TRUE
  /\ ManagerStart

\* The channel manager and its callers.
ChanNext ==
  \/ AssignPChannels /\ UNCHANGED lastAssign /\ NotifyIdle /\ SchedIdle /\ GcIdle
  \/ Confirm /\ UNCHANGED lastAssign /\ NotifyIdle /\ SchedIdle /\ GcIdle
  \/ RemovePChannels /\ UNCHANGED lastAssign /\ NotifyIdle /\ SchedIdle /\ GcIdle
  \/ Restart /\ UNCHANGED lastAssign /\ SchedIdle /\ GcIdle

ChanSpec == ChanInit /\ [][ChanNext]_vars

\* The same, remembering the updates of a successful AssignPChannels call
\* until the next call of any kind.
AssignResult(updates, order, failing) ==
  AssignLoop(channels, catalog, updates, order, failing)

TrackedAssignPChannels ==
  \E call \in AssignCalls :
    /\ AssignPChannelsCall(call.updates, call.order, call.failing)
    /\ lastAssign' =
         IF AssignResult(call.updates, call.order, call.failing).err # "nil"
         THEN <<>>
         ELSE IF lastAssign # <<>> /\ lastAssign[1].updates = call.updates
              THEN <<[updates |-> call.updates, calls |-> 2]>>
              ELSE <<[updates |-> call.updates, calls |-> 1]>>
    /\ NotifyIdle /\ SchedIdle /\ GcIdle

IdemNext ==
  \/ TrackedAssignPChannels
  \/ Confirm /\ lastAssign' = <<>> /\ NotifyIdle /\ SchedIdle /\ GcIdle
  \/ RemovePChannels /\ lastAssign' = <<>> /\ NotifyIdle /\ SchedIdle /\ GcIdle
  \/ Restart /\ lastAssign' = <<>> /\ SchedIdle /\ GcIdle

IdemSpec == ChanInit /\ [][IdemNext]_vars

\* The channel manager with its watchers.
WatchNext ==
  \/ WatchAssignPChannels /\ UNCHANGED lastAssign /\ NotifyIdle /\ SchedIdle /\ GcIdle
  \/ Confirm /\ UNCHANGED lastAssign /\ NotifyIdle /\ SchedIdle /\ GcIdle
  \/ RemovePChannels /\ UNCHANGED lastAssign /\ NotifyIdle /\ SchedIdle /\ GcIdle
  \/ Restart /\ UNCHANGED lastAssign /\ SchedIdle /\ GcIdle
  \/ \E w \in Watchers : WatchStart(w) /\ UNCHANGED lastAssign /\ NotifyIdle /\ SchedIdle /\ GcIdle
  \/ \E w \in Watchers : WatchLoop(w) /\ UNCHANGED lastAssign /\ NotifyIdle /\ SchedIdle /\ GcIdle
  \/ \E w \in Watchers : WatchCancel(w) /\ UNCHANGED lastAssign /\ NotifyIdle /\ SchedIdle /\ GcIdle

WatchSpec == ChanInit /\ [][WatchNext]_vars

\* The channel manager and its watchers with cond.Wait and the broadcast as
\* steps, and with their scheduling: a watcher that can deliver a view does.
ParkedNext ==
  \/ WatchAssignPChannels
       /\ UNCHANGED lastAssign /\ NotifyIdle /\ SchedIdle /\ GcIdle
  \/ RemovePChannels /\ UNCHANGED lastAssign /\ NotifyIdle /\ SchedIdle /\ GcIdle
  \/ \E w \in Watchers :
       WatchStart(w) /\ UNCHANGED lastAssign /\ NotifyIdle /\ SchedIdle /\ GcIdle
  \/ \E w \in Watchers :
       WatchWait(w) /\ UNCHANGED lastAssign /\ NotifyIdle /\ SchedIdle /\ GcIdle
  \/ \E w \in Watchers :
       WatchLoop(w) /\ UNCHANGED lastAssign /\ NotifyIdle /\ SchedIdle /\ GcIdle
  \/ \E w \in Watchers :
       WatchCancel(w) /\ UNCHANGED lastAssign /\ NotifyIdle /\ SchedIdle /\ GcIdle

ParkedFairness ==
  \A w \in Watchers :
    WF_vars(WatchLoop(w)
              /\ UNCHANGED lastAssign /\ NotifyIdle /\ SchedIdle /\ GcIdle)

ParkedLive == ChanInit /\ [][ParkedNext]_vars /\ ParkedFairness

\* The channel manager with the callers that wait for streaming to be
\* enabled.
StreamNext ==
  \/ \E n \in Notifiers :
       RegisterStreamingEnabledNotifier(n)
         /\ UNCHANGED lastAssign /\ SchedIdle /\ GcIdle
  \/ \E saveFails \in BOOLEAN :
       MarkStreamingHasEnabled(saveFails)
         /\ UNCHANGED lastAssign /\ SchedIdle /\ GcIdle
  \/ Restart /\ UNCHANGED lastAssign /\ SchedIdle /\ GcIdle

StreamSpec == ChanInit /\ [][StreamNext]_vars

\* The task scheduler with its callers, its workers and the registry.
ChanIdle == UNCHANGED <<chanVars, watchVars, notifyVars, lastAssign>>
WakeQuiet ==
  /\ ChanIdle /\ GcIdle /\ StopIdle /\ ReloadIdle
  /\ UNCHANGED <<passVars, finishLog>>
SchedQuiet == WakeQuiet /\ UNCHANGED notifyChan

SchedNext ==
  \/ \E t \in SchedTasks : \E slot \in 0..MaxTaskSlot :
       enqueue(t, slot) /\ WakeQuiet
  \/ \E t \in Tasks : AbortPending(t) /\ SchedQuiet
  \/ \E t \in Tasks : AbortRemove(t) /\ SchedQuiet
  \/ \E t \in Tasks : AbortNotPending(t) /\ SchedQuiet
  \/ \E t \in Tasks : AbortInsert(t) /\ SchedQuiet
  \/ \E n \in WorkerNodes : NodeJoin(n) /\ SchedQuiet
  \/ \E n \in WorkerNodes : NodeLeave(n) /\ SchedQuiet
  \/ RunStart /\ WakeQuiet
  \/ RunLoop /\ SchedQuiet
  \/ \E t \in Tasks : DispProcess(t) /\ SchedQuiet
  \/ \E t \in Tasks : DispPost(t) /\ SchedQuiet
  \/ RunEnd /\ SchedQuiet
  \/ PollStart /\ SchedQuiet
  \/ \E t \in Tasks : PollCheck(t) /\ SchedQuiet
  \/ \E t \in Tasks : PollRemove(t) /\ SchedQuiet

SchedSpec == ChanInit /\ [][SchedNext]_vars

\* The task scheduler with the record of what processFinished calls.
TrackedPollCheck(t) ==
  \E r \in checkProcessingTask(task[t], task[t].node \in registered) :
    /\ PollCheckWith(t, r)
    /\ Len(finishLog[t]) + Len(r.calls) <= MaxFinishCalls
    /\ finishLog' = [finishLog EXCEPT ![t] = @ \o r.calls]

FinishNext ==
  \/ \E t \in SchedTasks : \E slot \in 0..MaxTaskSlot :
       enqueue(t, slot) /\ WakeQuiet
  \/ \E t \in Tasks : AbortPending(t) /\ SchedQuiet
  \/ \E t \in Tasks : AbortRemove(t) /\ SchedQuiet
  \/ \E t \in Tasks : AbortNotPending(t) /\ SchedQuiet
  \/ \E t \in Tasks : AbortInsert(t) /\ SchedQuiet
  \/ \E n \in WorkerNodes : NodeJoin(n) /\ SchedQuiet
  \/ \E n \in WorkerNodes : NodeLeave(n) /\ SchedQuiet
  \/ RunStart /\ WakeQuiet
  \/ RunLoop /\ SchedQuiet
  \/ \E t \in Tasks : DispProcess(t) /\ SchedQuiet
  \/ \E t \in Tasks : DispPost(t) /\ SchedQuiet
  \/ RunEnd /\ SchedQuiet
  \/ PollStart /\ SchedQuiet
  \/ \E t \in Tasks :
       /\ TrackedPollCheck(t)
       /\ ChanIdle /\ GcIdle /\ StopIdle /\ ReloadIdle
       /\ UNCHANGED <<passVars, notifyChan>>
  \/ \E t \in Tasks : PollRemove(t) /\ SchedQuiet

FinishSpec == ChanInit /\ [][FinishNext]_vars

\* The dispatch pass with the account of what pickNode hands out: the
\* snapshot as QuerySlots returned it and, per node, the cost of the tasks
\* that fitted and the number of fallbacks. Polling and AbortTask never
\* touch the snapshot of a pass.
TrackedRunStart ==
  /\ RunStart
  /\ querySlots' = workerSlots'
  /\ picked' = NothingPicked

TrackedRunLoop ==
  /\ RunLoop
  /\ UNCHANGED querySlots
  /\ picked' =
       IF pendingTasks' = pendingTasks THEN picked
       ELSE LET t == Head(pendingTasks)
                n == disp'[t].node
            IN IF n = NoNode THEN picked
               ELSE IF workerSlots[n] >= task[t].slot
               THEN [picked EXCEPT ![n].fit = @ + task[t].slot]
               ELSE [picked EXCEPT ![n].fallback = @ + 1]

TrackedRunEnd ==
  /\ RunEnd
  /\ querySlots' = NoSlots
  /\ picked' = NothingPicked

SlotQuiet ==
  ChanIdle /\ GcIdle /\ StopIdle /\ ReloadIdle /\ UNCHANGED finishLog

SlotNext ==
  \/ \E t \in Tasks : \E slot \in 0..MaxTaskSlot :
       enqueue(t, slot) /\ WakeQuiet
  \/ \E n \in WorkerNodes : NodeJoin(n) /\ SchedQuiet
  \/ \E n \in WorkerNodes : NodeLeave(n) /\ SchedQuiet
  \/ TrackedRunStart /\ SlotQuiet
  \/ TrackedRunLoop /\ SlotQuiet /\ UNCHANGED notifyChan
  \/ \E t \in Tasks : DispProcess(t) /\ SchedQuiet
  \/ \E t \in Tasks : DispPost(t) /\ SchedQuiet
  \/ TrackedRunEnd /\ SlotQuiet /\ UNCHANGED notifyChan

SlotSpec == ChanInit /\ [][SlotNext]_vars

\* The scheduler with every Lock and Unlock of the key lock as a step.
LockNext ==
  \/ \E t \in SchedTasks : \E slot \in 0..MaxTaskSlot :
       enqueue(t, slot) /\ WakeQuiet
  \/ \E t \in Tasks : AbortPending(t) /\ SchedQuiet
  \/ \E t \in Tasks : AbortRemove(t) /\ SchedQuiet
  \/ \E t \in Tasks : AbortNotPending(t) /\ SchedQuiet
  \/ \E t \in Tasks : AbortInsert(t) /\ SchedQuiet
  \/ \E n \in WorkerNodes : NodeJoin(n) /\ SchedQuiet
  \/ \E n \in WorkerNodes : NodeLeave(n) /\ SchedQuiet
  \/ RunStart /\ WakeQuiet
  \/ RunLoop /\ SchedQuiet
  \/ \E t \in Tasks : DispLock(t) /\ SchedQuiet
  \/ \E t \in Tasks : DispSection(t) /\ SchedQuiet
  \/ \E t \in Tasks : DispPost(t) /\ SchedQuiet
  \/ RunEnd /\ SchedQuiet
  \/ PollStart /\ SchedQuiet
  \/ \E t \in Tasks : PollLock(t) /\ SchedQuiet
  \/ \E t \in Tasks : PollSection(t) /\ SchedQuiet
  \/ \E t \in Tasks : PollRemove(t) /\ SchedQuiet

LockSpec == ChanInit /\ [][LockNext]_vars

\* The scheduler built over persisted task records, and the dispatch
\* passes that follow, with the count of the DropTaskMeta calls made for a
\* task since it was last popped.
CountedRunLoop ==
  /\ RunLoop
  /\ dropMetaCalls' =
       IF pendingTasks' = pendingTasks THEN dropMetaCalls
       ELSE [dropMetaCalls EXCEPT ![Head(pendingTasks)] = 0]
  /\ UNCHANGED <<taskMeta, reloaded>>

CountedDispProcess(t) ==
  /\ DispProcess(t)
  /\ dropMetaCalls' =
       IF task[t].state = "none" /\ disp[t].node # NoNode
       THEN [dropMetaCalls EXCEPT ![t] = @ + 1] ELSE dropMetaCalls
  /\ taskMeta' = [u \in Tasks |->
                    IF u \in finalized' THEN NoRecord ELSE taskMeta[u]]
  /\ UNCHANGED reloaded

CountedDispPost(t) ==
  /\ DispPost(t)
  /\ dropMetaCalls' =
       IF task[t].state = "none"
       THEN [dropMetaCalls EXCEPT ![t] = @ + 1] ELSE dropMetaCalls
  /\ taskMeta' = [u \in Tasks |->
                    IF u \in finalized' THEN NoRecord ELSE taskMeta[u]]
  /\ UNCHANGED reloaded

ReloadInit ==
  /\ SchedStart
  /\ GcStart
  /\ gcEnabled = TRUE
  /\ ManagerStart
  /\ taskMeta \in [Tasks -> MetaRecords]
  /\ reloaded = FALSE

ReloadQuiet ==
  ChanIdle /\ GcIdle /\ StopIdle /\ UNCHANGED <<passVars, finishLog>>

ReloadNext ==
  \/ Reload /\ ReloadQuiet /\ UNCHANGED notifyChan
  \/ \E n \in WorkerNodes : reloaded /\ NodeJoin(n) /\ SchedQuiet
  \/ reloaded /\ RunStart /\ WakeQuiet
  \/ reloaded /\ CountedRunLoop /\ ReloadQuiet /\ UNCHANGED notifyChan
  \/ \E t \in Tasks :
       reloaded /\ CountedDispProcess(t) /\ ReloadQuiet /\ UNCHANGED notifyChan
  \/ \E t \in Tasks :
       reloaded /\ CountedDispPost(t) /\ ReloadQuiet /\ UNCHANGED notifyChan
  \/ reloaded /\ RunEnd /\ SchedQuiet

ReloadSpec == ReloadInit /\ [][ReloadNext]_vars

\* The scheduler from Start to the return of Stop.
StopQuiet ==
  /\ ChanIdle /\ GcIdle /\ ReloadIdle
  /\ UNCHANGED <<passVars, finishLog, notifyChan>>

StopNext ==
  \/ \E t \in SchedTasks : \E slot \in 0..MaxTaskSlot :
       enqueue(t, slot) /\ WakeQuiet
  \/ \E n \in WorkerNodes : NodeJoin(n) /\ SchedQuiet
  \/ \E n \in WorkerNodes : NodeLeave(n) /\ SchedQuiet
  \/ RunStart /\ WakeQuiet
  \/ RunLoop /\ SchedQuiet
  \/ \E t \in Tasks : DispProcess(t) /\ SchedQuiet
  \/ \E t \in Tasks : DispPost(t) /\ SchedQuiet
  \/ RunEnd /\ SchedQuiet
  \/ PollStart /\ SchedQuiet
  \/ \E t \in Tasks : PollCheck(t) /\ SchedQuiet
  \/ \E t \in Tasks : PollRemove(t) /\ SchedQuiet
  \/ StopCancel /\ StopQuiet
  \/ ScheduleExit /\ StopQuiet
  \/ CheckLoopExit /\ StopQuiet
  \/ MetricsExit /\ StopQuiet
  \/ StopReturn /\ StopQuiet

StopSpec == ChanInit /\ [][StopNext]_vars

\* The same with its scheduling: a goroutine that can take its next step
\* takes it (every call it waits for returns), and a loop that comes back to
\* its select again and again with the context cancelled takes the ctx.Done
\* case at last.
StopFairness ==
  /\ WF_vars(RunLoop /\ SchedQuiet)
  /\ \A t \in Tasks : WF_vars(DispProcess(t) /\ SchedQuiet)
  /\ \A t \in Tasks : WF_vars(DispPost(t) /\ SchedQuiet)
  /\ WF_vars(RunEnd /\ SchedQuiet)
  /\ \A t \in Tasks : WF_vars(PollCheck(t) /\ SchedQuiet)
  /\ \A t \in Tasks : WF_vars(PollRemove(t) /\ SchedQuiet)
  /\ SF_vars(ScheduleExit /\ StopQuiet)
  /\ SF_vars(CheckLoopExit /\ StopQuiet)
  /\ WF_vars(MetricsExit /\ StopQuiet)
  /\ WF_vars(StopReturn /\ StopQuiet)

StopLive == StopSpec /\ StopFairness

\* The dispatch loop woken by notify alone: the ticker never fires.
NotifiedRunStart == RunStart /\ notifyChan' = notifyChan - 1

NotifyNext ==
  \/ \E t \in Tasks : \E slot \in 0..MaxTaskSlot :
       enqueue(t, slot) /\ WakeQuiet
  \/ \E n \in WorkerNodes : NodeJoin(n) /\ SchedQuiet
  \/ NotifiedRunStart /\ WakeQuiet
  \/ RunEmpty /\ WakeQuiet
  \/ RunLoop /\ SchedQuiet
  \/ \E t \in Tasks : DispProcess(t) /\ SchedQuiet
  \/ \E t \in Tasks : DispPost(t) /\ SchedQuiet
  \/ RunEnd /\ SchedQuiet
  \/ StopCancel /\ StopQuiet
  \/ ScheduleExit /\ StopQuiet

NotifySpec == ChanInit /\ [][NotifyNext]_vars

\* A goroutine of a pass that can take its next step takes it, and the
\* select of the loop takes a token that stays in the channel.
NotifyFairness ==
  /\ WF_vars(NotifiedRunStart /\ WakeQuiet)
  /\ WF_vars(RunEmpty /\ WakeQuiet)
  /\ WF_vars(RunLoop /\ SchedQuiet)
  /\ \A t \in Tasks : WF_vars(DispProcess(t) /\ SchedQuiet)
  /\ \A t \in Tasks : WF_vars(DispPost(t) /\ SchedQuiet)
  /\ WF_vars(RunEnd /\ SchedQuiet)

NotifyLive == NotifySpec /\ NotifyFairness

\* Segment GC, the scan behind it, and the rest of the data coordinator.
GcQuiet == ChanIdle /\ SchedIdle /\ CmdIdle

GcNext ==
  \/ Tick /\ GcQuiet
  \/ (\E dml \in DmlTimes : Flush(dml)) /\ GcQuiet
  \/ (\E from \in SUBSET SegIDs : \E n \in {1, 2} : Compact(from, n))
       /\ GcQuiet
  \/ (\E id \in SegIDs : MarkDropped(id)) /\ GcQuiet
  \/ (\E id \in SegIDs : BuildIndex(id)) /\ GcQuiet
  \/ AdvanceCheckpoint /\ GcQuiet
  \/ DropChannel /\ GcQuiet
  \/ GcTick /\ GcQuiet
  \/ ScanTick /\ GcQuiet

GcSpec == ChanInit /\ [][GcNext]_vars

\* The residue scan: what the scan reads of the meta is which segments
\* are there.
ScanNext ==
  \/ Tick /\ GcQuiet
  \/ (\E dml \in DmlTimes : Flush(dml)) /\ GcQuiet
  \/ (\E p \in ResiduePaths : WriteResidue(p)) /\ GcQuiet
  \/ TrackedScanTick /\ GcQuiet

ScanSpec == ChanInit /\ [][ScanNext]_vars

\* The command channel and the two tickers.
PauseNext ==
  \/ Tick /\ GcQuiet
  \/ (\E dml \in DmlTimes : Flush(dml)) /\ GcQuiet
  \/ (\E id \in SegIDs : MarkDropped(id)) /\ GcQuiet
  \/ DropChannel /\ GcQuiet
  \/ (\E p \in ResiduePaths : WriteResidue(p)) /\ GcQuiet
  \/ (\E d \in PauseDurations : Pause(d)) /\ GcQuiet
  \/ Resume /\ GcQuiet
  \/ GcTick /\ GcQuiet
  \/ ScanTick /\ GcQuiet

PauseSpec == ChanInit /\ [][PauseNext]_vars

\* The callers of Pause and Resume and the worker, enabled or not.
CmdQuiet == ChanIdle /\ SchedIdle

CmdInit ==
  /\ SchedStart
  /\ MetaStart
  /\ GcStart
  /\ gcEnabled \in BOOLEAN
  /\ ManagerStart

CmdNext ==
  \/ Tick /\ GcQuiet
  \/ (\E d \in PauseDurations : CallPause(d)) /\ CmdQuiet
  \/ CallResume /\ CmdQuiet
  \/ CallCancel /\ CmdQuiet
  \/ WorkerCmd /\ CmdQuiet
  \/ CallReturn /\ CmdQuiet
  \/ gcEnabled /\ GcTick /\ GcQuiet

CmdSpec == CmdInit /\ [][CmdNext]_vars

\* =================================================================
\* Properties of the channel manager
\* =================================================================
SameTerms == \A c \in Channels : channels'[c].term = channels[c].term

\* C4: a channel's term never decreases; an assign entry that is not skipped
\* increases the term by exactly one; confirm, mark_unavailable and recovery
\* leave every term as it is.
C4_TermMonotone ==
  [][ /\ \A c \in Channels : channels'[c].term >= channels[c].term
      /\ AssignPChannels =>
           \A c \in Channels : channels'[c] # channels[c] =>
                                  channels'[c].term = channels[c].term + 1
      /\ (Confirm \/ RemovePChannels \/ Restart) => SameTerms ]_vars

\* C5: in every reachable state the term of a channel is strictly greater
\* than the term of every entry of its history.
C5_TermAboveHistory ==
  \A c \in DOMAIN channels :
    \A i \in DOMAIN channels[c].hist :
      channels[c].hist[i].term < channels[c].term

\* A channel that was re-assigned: its history holds an earlier assignment.
C5_Witness ==
  \E c \in DOMAIN channels :
    channels[c].term = 2 /\ Len(channels[c].hist) >= 1

SameRecord(c) ==
  /\ channels'[c] = channels[c]
  /\ (c \in DOMAIN catalog') = (c \in DOMAIN catalog)
  /\ c \in DOMAIN catalog => catalog'[c] = catalog[c]

\* The step is a successful AssignPChannels call; with the updates of the
\* successful call right before it (lastAssign), it is the second in a row.
SecondCallInARow(call) ==
  /\ AssignPChannelsCall(call.updates, call.order, call.failing)
  /\ AssignResult(call.updates, call.order, call.failing).err = "nil"

\* C6 as stated: the second of two AssignPChannels calls in a row with the
\* same updates changes no channel, persists nothing and leaves the version.
C6_SecondCallNoOp ==
  [][ lastAssign # <<>> =>
        \A call \in CallsWith(lastAssign[1].updates) :
          SecondCallInARow(call) =>
            /\ channels' = channels
            /\ catalog' = catalog
            /\ version' = version ]_vars

\* C6 amended: the second call in a row leaves alone exactly the channels of
\* the batch that are in state assigned; a channel still in state assigning
\* is assigned again (term + 1, record persisted); the version is bumped.
C6_SecondCallSkipsAssigned ==
  [][ lastAssign # <<>> =>
        \A call \in CallsWith(lastAssign[1].updates) :
          SecondCallInARow(call) =>
            /\ version'.local = version.local + 1
            /\ \A c \in DOMAIN call.updates :
                 IF channels[c].state = "assigned"
                 THEN SameRecord(c)
                 ELSE /\ channels'[c].term = channels[c].term + 1
                      /\ c \in DOMAIN catalog'
                      /\ catalog'[c] = channels'[c] ]_vars

\* Two equal calls in a row on a batch whose channels are all assigned.
C6_Witness ==
  /\ lastAssign # <<>>
  /\ lastAssign[1].calls = 2
  /\ DOMAIN lastAssign[1].updates # {}
  /\ \A c \in DOMAIN lastAssign[1].updates : channels[c].state = "assigned"

\* C7: when the persist of one channel of an assign batch fails, the record
\* of that channel in memory is as before the call, and the channels
\* persisted before it stay applied.
C7_FailedPersistLeavesRecord ==
  [][ \A call \in AssignCalls :
        ( /\ AssignPChannelsCall(call.updates, call.order, call.failing)
          /\ AssignResult(call.updates, call.order, call.failing).err
               = "persist" )
        => /\ \A c \in call.failing : channels'[c] = channels[c]
           /\ \A c \in DOMAIN call.updates \ call.failing :
                c \in DOMAIN channels /\ channels'[c] # channels[c]
                  => c \in DOMAIN catalog' /\ catalog'[c] = channels'[c] ]_vars

\* C8: the versions passed to the callback of one watcher keep their global
\* epoch, never go back in the local counter and never repeat in a row.
C8_VersionsAdvance ==
  \A w \in Watchers :
    \A i \in 1..(Len(received[w]) - 1) :
      /\ received[w][i + 1].global = received[w][i].global
      /\ received[w][i + 1].local >= received[w][i].local
      /\ received[w][i + 1] # received[w][i]

\* A watcher that was called back twice after its initial view.
C8_Witness == \E w \in Watchers : Len(received[w]) >= 3

\* C9: the channel map a watcher was handed with the current version stays
\* the map of that version: no batch changes it without bumping the version.
C9_NoChangeWithoutVersion ==
  [][ ( /\ \E w \in Watchers : wpc[w] = "waiting" /\ lastVersion[w] = version
        /\ channels' # channels )
      => version' # version ]_vars

\* C13: recovering the manager from the metadata store gives every channel
\* the record the manager held in memory before the restart.
C13_RecoveryKeepsRecords ==
  [][ Restart => \A c \in Channels : channels'[c] = channels[c] ]_vars


\* =================================================================
\* Properties of the task scheduler
\* =================================================================
Tracked == enqueued \ finalized

\* C1: at every moment a task the scheduler tracks is in exactly one of
\* pending and running, never in both and never in neither.
C1_ExactlyOneCollection ==
  \A t \in Tracked : (t \in Queued(pendingTasks)) # (t \in runningTasks)

\* C2: once AbortTask has returned for a tracked task, the task is failed
\* with reason "canceled" and sits in running until it is finalized.
C2_AbortedIsCanceled ==
  \A t \in aborted \cap Tracked :
      /\ task[t].state = "failed"
      /\ task[t].reason = "canceled"
      /\ t \in runningTasks

\* C3: within one dispatch pass the costs of the tasks that pickNode fitted
\* on a node add up to at most the slots QuerySlots reported for the node,
\* and on top of them a node takes at most one fallback task; a node missing
\* from the snapshot takes nothing.
C3_SlotsNotOversubscribed ==
  \A n \in WorkerNodes :
      IF n \in DOMAIN querySlots
      THEN /\ picked[n].fit <= querySlots[n]
           /\ picked[n].fallback <= 1
      ELSE picked[n] = NothingPicked[n]

C3_Witness ==
  \E n \in DOMAIN querySlots :
      /\ picked[n].fit >= 1
      /\ picked[n].fallback = 1
      /\ \E m \in DOMAIN querySlots : m # n /\ picked[m].fit = querySlots[m]
                                      /\ querySlots[m] >= 1

\* C10: the poll of an in-progress task whose node is not registered moves
\* the task to retry and keeps it in running; the poll of a retry task whose
\* node is not registered resets it to init, pushes it to pending and then
\* removes it from running; a dispatch pass leaves the queue alone when no
\* node has slots, and puts a task in progress only on a registered node.
C10_WorkerLost ==
  [][ \A t \in Tasks :
        /\ ( PollCheck(t) /\ task[t].state = "inprogress"
               /\ task[t].node \notin registered )
           => /\ task'[t].state = "retry"
              /\ t \in runningTasks' /\ pollPc'[t] = "idle"
              /\ pendingTasks' = pendingTasks
        /\ ( PollCheck(t) /\ task[t].state = "retry"
               /\ task[t].node \notin registered )
           => /\ task'[t].state = "init"
              /\ t \in Queued(pendingTasks')
              /\ pollPc'[t] = "remove"
        /\ ( PollRemove(t) /\ pollPc[t] = "remove" ) => t \notin runningTasks'
        /\ ( RunLoop /\ ~hasAvailableSlots(workerSlots) )
           => pendingTasks' = pendingTasks
        /\ ( DispProcess(t) /\ task[t].state = "init"
               /\ task'[t].state = "inprogress" )
           => /\ disp[t].node \in registered
              /\ task'[t].node = disp[t].node ]_vars

C10_Witness ==
  \E t \in Tasks :
      /\ t \in Queued(pendingTasks)
      /\ t \notin runningTasks
      /\ task[t].state = "init"
      /\ task[t].node # NoNode
      /\ task[t].node \notin registered
      /\ registered # {}

Canceled(t) == task[t].state = "failed" /\ task[t].reason = "canceled"

\* C12: when AbortTask returns for a pending task, the task is out of
\* pending and in running, failed with reason "canceled"; from then on it
\* stays failed with that reason (it is never put in progress on a worker)
\* and it leaves running only with its final record persisted.
C12_AbortPendingFinalizes ==
  [][ \A t \in Tasks :
        /\ AbortRemove(t)
           => /\ t \notin Queued(pendingTasks')
              /\ t \in runningTasks'
              /\ task'[t].state = "failed" /\ task'[t].reason = "canceled"
        /\ ( t \in aborted /\ Canceled(t) /\ t \in runningTasks
               /\ t \notin finalized )
           => /\ task'[t].state = "failed" /\ task'[t].reason = "canceled"
              /\ t \in runningTasks' \/ t \in finalized' ]_vars

DropCalls == {"DropTaskOnWorker", "DropTaskOnWorker failed"}

\* C11 as stated: once the final record of a task is persisted,
\* DropTaskOnWorker has been invoked for the task exactly once, and before
\* SetJobInfo persisted the record.
C11_DropOnceBeforeFinal ==
  \A t \in Tasks :
    \A i \in DOMAIN finishLog[t] :
      finishLog[t][i] = "SetJobInfo" =>
        /\ Cardinality({ j \in DOMAIN finishLog[t] :
                           finishLog[t][j] \in DropCalls }) = 1
        /\ \E j \in 1..(i - 1) : finishLog[t][j] \in DropCalls

\* C11 amended: each run of processFinished calls SetJobInfo first; it
\* invokes DropTaskOnWorker after that, exactly when SetJobInfo succeeded
\* and the node of the task is registered; the task is marked for eviction
\* exactly when SetJobInfo succeeded and the drop, if invoked, succeeded.
C11_SetJobInfoThenDrop ==
  [][ \A t \in Tasks :
        finishLog'[t] # finishLog[t] =>
          LET new == SubSeq(finishLog'[t], Len(finishLog[t]) + 1,
                            Len(finishLog'[t]))
              exist == task[t].node \in registered
          IN /\ new[1] \in {"SetJobInfo", "SetJobInfo failed"}
             /\ Len(new) <= 2
             /\ (Len(new) = 2) <=> (new[1] = "SetJobInfo" /\ exist)
             /\ Len(new) = 2 => new[2] \in DropCalls
             /\ (pollPc'[t] = "remove") <=>
                  /\ new[1] = "SetJobInfo"
                  /\ Len(new) = 2 => new[2] = "DropTaskOnWorker"
             /\ new[1] = "SetJobInfo" =>
                  /\ t \in finalized'
                  /\ task'[t].state \in {"finished", "failed"} ]_vars

\* A task whose drop failed once and succeeded at the next poll.
C11_Witness ==
  \E t \in Tasks :
    /\ finishLog[t] = <<"SetJobInfo", "DropTaskOnWorker failed",
                        "SetJobInfo", "DropTaskOnWorker">>
    /\ t \notin runningTasks

\* ---------------------------------------------- garbage collector claims
\* This step removes a log of the dropped segment id from the bucket, or
\* its record from the meta.
Reclaimed(id) ==
  /\ id \in DOMAIN segments
  /\ segments[id].state = "Dropped"
  /\ \/ id \notin DOMAIN segments'
     \/ \E p \in getLogs(id) \cap DOMAIN bucket : p \notin DOMAIN bucket'

\* The segments in the meta that list id in CompactionFrom.
Children(id) == { c \in DOMAIN segments : id \in segments[c].from }

\* C14: no log and no record of a dropped segment is removed while a segment
\* it was compacted into is in the meta and has no index.
C14_NotBeforeChildIndexed ==
  [][ \A id \in SegIDs :
        Reclaimed(id) => \A c \in Children(id) : c \in segIndexes ]_vars

\* C15 as stated: a dropped segment is reclaimed only when the checkpoint of
\* its channel is at or past its DML position.
C15_OnlyPastCheckpoint ==
  [][ \A id \in SegIDs :
        Reclaimed(id) => channelCP >= segments[id].dmlTs ]_vars

\* C15 amended: a dropped segment is reclaimed only when the checkpoint of
\* its channel is at or past its DML position, or when the channel is no
\* longer in the catalog.
C15_CheckpointOrNoChannel ==
  [][ \A id \in SegIDs :
        Reclaimed(id) =>
          \/ ~channelExists
          \/ channelCP >= segments[id].dmlTs ]_vars

\* A segment was reclaimed while its channel exists, with the checkpoint
\* exactly at its DML position.
C15_Witness ==
  \E id \in DOMAIN gcDropped :
    /\ channelExists
    /\ channelCP = gcDropped[id].seg.dmlTs

ScanDeleted == { p \in DOMAIN bucket : p \notin DOMAIN bucket' }

\* The age of an object of the bucket.
Age(p) == now - bucket[p]

\* C17 as stated: of the prefixes it lists, the scan calls Remove for the
\* files older than missingTolerance whose path names a segment that is not
\* in the meta or does not reference the path, and for no other file.
C17_RemovesUnreferenced ==
  [][ (UNCHANGED <<now, segments>> /\ TrackedScanTick) =>
        lastScan'.removedKeys =
          { p \in DOMAIN bucket :
              /\ p[1] \in lastScan'.listed
              /\ Age(p) > missingTolerance
              /\ p[3] # "garbage"
              /\ \/ p[2] \notin DOMAIN segments
                 \/ p \notin getLogs(p[2]) } ]_vars

\* C17 amended: of the prefixes it lists, the scan calls Remove for the
\* files older than missingTolerance whose path names a segment and whose
\* segment is not in the meta, and for the stats and delta logs whose
\* segment is in the meta and does not reference the path; for no other
\* file.  Only files it called Remove for leave the bucket.
C17_RemovesOrphans ==
  [][ (UNCHANGED <<now, segments>> /\ TrackedScanTick) =>
        /\ lastScan'.removedKeys =
             { p \in DOMAIN bucket :
                 /\ p[1] \in lastScan'.listed
                 /\ Age(p) > missingTolerance
                 /\ p[3] # "garbage"
                 /\ \/ p[2] \notin DOMAIN segments
                    \/ /\ p[1] \in {"stats_log", "delta_log"}
                       /\ p \notin getLogs(p[2]) }
        /\ ScanDeleted \subseteq lastScan'.removedKeys ]_vars

\* The scan of this instant listed every prefix and left in the bucket an
\* old insert log that its segment, which is in the meta, does not
\* reference.
C17_Witness ==
  /\ lastScan.at = now
  /\ lastScan.listed = Kinds
  /\ \E p \in DOMAIN bucket :
       /\ p[1] = "insert_log" /\ p[3] = "tmp"
       /\ p[2] \in DOMAIN segments
       /\ Age(p) > missingTolerance
       /\ p \notin lastScan.removedKeys

\* C18: the scan removes no object whose age is at most missingTolerance.
C18_ScanKeepsYoung ==
  [][ (UNCHANGED <<now, segments>> /\ TrackedScanTick) =>
        \A p \in DOMAIN bucket :
          Age(p) <= missingTolerance =>
            /\ p \in DOMAIN bucket'
            /\ p \notin lastScan'.removedKeys ]_vars

\* The scan of this instant listed every prefix and left in the bucket a
\* young file, written before this instant, whose segment is not in the
\* meta.
C18_Witness ==
  /\ lastScan.at = now
  /\ lastScan.listed = Kinds
  /\ \E p \in DOMAIN bucket :
       /\ p[3] = "tmp"
       /\ p[2] \notin DOMAIN segments
       /\ bucket[p] < now
       /\ Age(p) <= missingTolerance

\* C19: when a tick and the scan behind it have run without error, a tick
\* or a scan that follows with nothing in between removes no file, no
\* segment, no index record and no checkpoint.
C19_RerunChangesNothing ==
  [][ (cleanRuns = "full" /\ (GcTick \/ ScanTick)) =>
        UNCHANGED <<segments, bucket, segIndexes, indexFiles, channelCP>> ]_vars

\* C20: while the collector is paused no step removes a file, a segment
\* record, an index record or an index directory.
C20_PausedRemovesNothing ==
  [][ now < pauseUntil =>
        /\ DOMAIN bucket \subseteq DOMAIN bucket'
        /\ DOMAIN segments \subseteq DOMAIN segments'
        /\ segIndexes \subseteq segIndexes'
        /\ indexFiles \subseteq indexFiles' ]_vars


\* =================================================================
\* Watchers, notifiers and failed batches of the channel manager
\* =================================================================

\* C21: a watcher is called back once for every version bump: the local
\* counters of two consecutive callbacks of one watcher differ by exactly one.
C21_OneCallbackPerBump ==
  \A w \in Watchers :
    \A i \in 1..(Len(received[w]) - 1) :
      received[w][i + 1].local = received[w][i].local + 1


\* C22: once MarkStreamingHasEnabled has saved the streaming version, no
\* notifier is left pending and every registered notifier, whether it was
\* registered before the save or after it, has been cancelled exactly once;
\* no notifier is ever cancelled twice.
C22_NotifiersCancelledOnce ==
  /\ \A n \in Notifiers : notifiers[n].cancels <= 1
  /\ catalogVersion # NilVersion =>
       /\ streamingEnableNotifiers = <<>>
       /\ \A n \in Notifiers :
            notifiers[n].registered # "no" => notifiers[n].cancels = 1

\* Two notifiers were registered while streaming was not enabled and two
\* when it was; the version is saved and all four have been cancelled.
C22_Witness ==
  /\ catalogVersion # NilVersion
  /\ \A n \in Notifiers : notifiers[n].cancels = 1
  /\ Cardinality({ n \in Notifiers : notifiers[n].registered = "pending" }) = 2
  /\ Cardinality({ n \in Notifiers : notifiers[n].registered = "enabled" }) = 2


\* C23: an assign batch that names a channel the manager does not know
\* returns ErrChannelNotExist and leaves the channel map and the version as
\* they were before the call.
C23_UnknownChannelChangesNothing ==
  [][ \A call \in AssignCalls :
        ( /\ AssignPChannelsCall(call.updates, call.order, call.failing)
          /\ AssignResult(call.updates, call.order, call.failing).err
               = "ErrChannelNotExist" )
        => channels' = channels /\ version' = version ]_vars


\* =================================================================
\* Fallback dispatch, shutdown and locking of the task scheduler
\* =================================================================

\* The loop of a dispatch pass is over, and every task handed to the
\* scheduler costs more slots than any node of the snapshot reported, of
\* which at least one reported a positive number.
OversizedPass ==
  /\ runPc = "wait"
  /\ \E n \in DOMAIN querySlots : querySlots[n] > 0
  /\ \A t \in enqueued : \A n \in DOMAIN querySlots :
       task[t].slot > querySlots[n]

\* The nodes pickNode returned as a fallback in the current pass.
FallbackNodes == { n \in WorkerNodes : picked[n].fallback >= 1 }

\* C24 as stated: a pass over tasks that fit on no node makes exactly one
\* fallback dispatch.
C24_ExactlyOneFallback ==
  OversizedPass =>
    /\ Cardinality(FallbackNodes) = 1
    /\ \A n \in FallbackNodes : picked[n].fallback = 1

\* C24 amended: a pass over tasks that fit on no node makes at least one
\* fallback dispatch and at most one on each node that reported positive
\* slots, never a fitting dispatch, and leaves the other nodes their slots;
\* its loop stops short of using every such node only when it finds the
\* queue empty.
C24_OneFallbackPerNode ==
  [][ OversizedPass' =>
        /\ FallbackNodes' # {}
        /\ \A n \in WorkerNodes :
             /\ picked'[n].fit = 0
             /\ picked'[n].fallback <= 1
             /\ picked'[n].fallback = 1 =>
                  n \in DOMAIN querySlots' /\ querySlots'[n] > 0
        /\ \A n \in DOMAIN querySlots' :
             workerSlots'[n] = IF n \in FallbackNodes' THEN 0
                               ELSE querySlots'[n]
        /\ runPc = "loop" =>
             \/ FallbackNodes' =
                  { n \in DOMAIN querySlots' : querySlots'[n] > 0 }
             \/ pendingTasks' = <<>> ]_vars

\* A pass over oversized tasks that used two nodes as a fallback.
C24_Witness == OversizedPass /\ Cardinality(FallbackNodes) = 2


\* C25: once Stop has cancelled the context, enqueue adds nothing to the
\* pending queue and nothing to the running map.
C25_NoEnqueueAfterStop ==
  [][ ( /\ ctxDone
        /\ \E t \in SchedTasks : \E slot \in 0..MaxTaskSlot : enqueue(t, slot) )
      => pendingTasks' = pendingTasks /\ runningTasks' = runningTasks ]_vars


\* C26: after Stop has cancelled the context, the three loops exit and Stop
\* returns.
C26_StopReturns == ctxDone ~> (exited = Loops /\ stopPc = "returned")


\* The goroutines that are between Lock and Unlock of the key of task t.
InSection(t) ==
  (IF disp[t].pc = "locked" THEN {"dispatch"} ELSE {})
    \cup (IF pollPc[t] = "locked" THEN {"poll"} ELSE {})
    \cup (IF taskLock[t] \in {"abort", "abortRunning"} THEN {"abort"} ELSE {})

\* C27: the state of a task that was enqueued changes only in a step of the
\* goroutine that holds the task's key, and at no time do two of dispatch,
\* poll and abort hold the key of one task.
C27_StateChangesUnderLock ==
  [][ \A t \in Tasks :
        /\ (t \in enqueued /\ task'[t].state # task[t].state)
             => InSection(t) \cup InSection(t)' # {}
        /\ Cardinality(InSection(t)') <= 1
        /\ InSection(t)' # {} <=> taskLock'[t] # "free" ]_vars

\* The dispatch goroutine of a task holds the key while the poll goroutine
\* of the same task waits for it.
C27_Witness ==
  \E t \in Tasks : disp[t].pc = "locked" /\ pollPc[t] = "check"


\* C28: a watcher that has its initial view and is neither cancelled nor
\* stopped by its callback is handed, for every value the local counter of
\* the manager's version reaches, a view with at least that counter.
C28_NoLostWakeup ==
  \A w \in Watchers : \A v \in 1..MaxVersion :
    (wpc[w] \in {"waiting", "parked"} /\ version.local >= v)
      ~> (wpc[w] = "done" \/ lastVersion[w].local >= v)

\* The watcher was parked in cond.Wait, a batch bumped the version, and the
\* watcher has been handed the view of the new version.
C28_Witness ==
  \E w \in Watchers :
    /\ wpc[w] = "parked"
    /\ Len(received[w]) >= 2
    /\ lastVersion[w] = version
    /\ version.local = MaxVersion


\* No dispatch pass, no goroutine of a popped or polled task and no
\* AbortTask call is under way.
Quiescent ==
  /\ runPc = "idle"
  /\ \A t \in Tasks :
       disp[t].pc = "idle" /\ pollPc[t] = "idle" /\ taskLock[t] = "free"

\* C29: when the scheduler is quiescent, every task that was enqueued and is
\* not finalized is in exactly one of the pending queue and the running map.
C29_NoTaskLost ==
  Quiescent =>
    \A t \in Tracked : (t \in Queued(pendingTasks)) # (t \in runningTasks)


\* The goroutine of a popped task runs processInit on it.
InitDispatch(t) ==
  /\ UNCHANGED <<pendingTasks, runningTasks>>
  /\ task[t].state = "init"
  /\ disp[t].node # NoNode
  /\ DispProcess(t)

\* What the goroutine of a popped task in state init does by the outcome of
\* processInit: without a client, or when UpdateVersion fails, the task is
\* unchanged and goes back to pending; when UpdateMetaBuildingState fails it
\* is in state retry and goes to running; any task that is neither none nor
\* init goes to running.
RequeueByOutcome ==
  \A t \in Tasks :
    /\ (InitDispatch(t) /\ disp[t].node \notin registered)
         => \/ task'[t] = task[t]
            \/ task'[t].state = "finished"
    /\ (InitDispatch(t) /\ task'[t].state = "init") => task'[t] = task[t]
    /\ (InitDispatch(t) /\ task'[t].state = "retry")
         => /\ task'[t].reason = "update meta building state failed"
            /\ disp[t].node \in registered
    /\ (DispPost(t) /\ task[t].state = "init")
         => t \in Queued(pendingTasks') /\ runningTasks' = runningTasks
    /\ (DispPost(t) /\ task[t].state \notin {"none", "init"})
         => t \in runningTasks' /\ pendingTasks' = pendingTasks

\* C30 as stated: on top of that, processInit leaves a task in progress only
\* when every step succeeded.
C30_InProgressOnlyOnSuccess ==
  [][ /\ RequeueByOutcome
      /\ \A t \in Tasks :
           (InitDispatch(t) /\ task'[t].state = "inprogress")
             => task'[t].reason = "" ]_vars

\* C30 amended: on top of that, processInit leaves a task in progress when
\* every step succeeded and also when AssignTask failed, then with the fail
\* reason AssignTask recorded; in both cases the node is recorded and has a
\* client.
C30_InProgressOrAssignFailed ==
  [][ /\ RequeueByOutcome
      /\ \A t \in Tasks :
           (InitDispatch(t) /\ task'[t].state = "inprogress")
             => /\ task'[t].reason \in {"", "assign task failed"}
                /\ task'[t].node = disp[t].node
                /\ disp[t].node \in registered ]_vars

\* A task whose AssignTask failed is in the running map, in progress.
C30_Witness ==
  \E t \in Tasks :
    /\ t \in runningTasks
    /\ t \notin Queued(pendingTasks)
    /\ task[t].state = "inprogress"
    /\ task[t].reason = "assign task failed"
    /\ disp[t].pc = "idle"


\* =================================================================
\* Retry, reload, notification and the remaining frame properties
\* =================================================================

\* C31: the poll of a task in state retry resets it to init, pushes it to
\* pending and goes on to remove it from running, whatever DropTaskOnWorker
\* returned.
C31_RetryAlwaysRequeues ==
  [][ \A t \in Tasks :
        ( /\ UNCHANGED <<runningTasks, registered>>
          /\ task[t].state = "retry"
          /\ PollCheck(t) )
        => /\ task'[t].state = "init"
           /\ t \in Queued(pendingTasks')
           /\ pollPc'[t] = "remove" ]_vars


\* C32: a dispatch goroutine exists only inside a pass, a pass starts and
\* ends only when no dispatch goroutine exists, and a task is popped only
\* by the loop of the pass, from the head of the queue.
C32_OnePassAtATime ==
  [][ /\ (runPc' = "idle" => \A t \in Tasks : disp'[t].pc = "idle")
      /\ (runPc = "idle" /\ runPc' # "idle"
            => \A t \in Tasks : disp[t].pc = "idle")
      /\ \A t \in Tasks :
           (disp[t].pc = "idle" /\ disp'[t].pc # "idle")
           => /\ runPc = "loop" /\ runPc' = "loop"
              /\ pendingTasks # <<>>
              /\ t = Head(pendingTasks)
              /\ pendingTasks' = Tail(pendingTasks) ]_vars

\* The loop of the pass is over and run waits for a goroutine that has
\* processed its task and has not yet put it back.
C32_Witness ==
  /\ runPc = "wait"
  /\ \E t \in Tasks : disp[t].pc = "post"


\* C33: reloadFromMeta puts every task record that is not deleted (a stats
\* record: whose segment is healthy) in pending only when its state is none
\* or init, in running only when it is in progress or retry, and in neither
\* when it is finished or failed.
Reloadable(rec) ==
  \/ rec.kind = "index" /\ ~rec.deleted
  \/ rec.kind = "analyze"
  \/ rec.kind = "stats" /\ rec.segment = "healthy"

C34_DroppedOnlyWithoutLogs ==
  [][ \A id \in DOMAIN segments :
        id \notin DOMAIN segments'
        => getLogs(id) \cap DOMAIN bucket' = {} ]_vars


\* C35: a confirm changes a channel only when it is in state assigning, and
\* then it empties its history and makes it assigned; the confirm of a
\* channel in any other state changes no channel, and an assigned channel
\* has an empty history.
C35_ConfirmOnlyAssigning ==
  [][ \A id \in Channels : \A persistFails \in BOOLEAN :
        AssignPChannelsDone(id, persistFails)
        => /\ channels' =
                IF channels[id].state = "assigning" /\ ~persistFails
                THEN [channels EXCEPT ![id].hist = <<>>,
                                      ![id].state = "assigned"]
                ELSE channels
           /\ \A c \in DOMAIN channels' :
                channels'[c].state = "assigned" => channels'[c].hist = <<>> ]_vars

\* A channel that was assigned twice and confirmed: its history is empty.
C35_Witness ==
  \E c \in DOMAIN channels :
    /\ channels[c].state = "assigned"
    /\ channels[c].term >= 2
    /\ channels[c].hist = <<>>


\* C36: every task the loop of a pass pops is given a node of the snapshot,
\* and the loop is left only when no node of the snapshot has a positive
\* number of slots or the pending queue is empty.
C36_PoppedTaskGetsNode ==
  [][ /\ \A t \in Tasks :
           (disp[t].pc = "idle" /\ disp'[t].pc = "process")
           => /\ hasAvailableSlots(workerSlots)
              /\ disp'[t].node # NoNode
              /\ disp'[t].node \in DOMAIN workerSlots
      /\ (runPc = "loop" /\ runPc' = "wait")
           => \/ \A n \in DOMAIN workerSlots : workerSlots[n] <= 0
              \/ pendingTasks = <<>> ]_vars

\* The loop has stopped on a snapshot without slots while a task waits: the
\* task popped last was given a fallback node.
C36_Witness ==
  /\ runPc = "wait"
  /\ pendingTasks # <<>>
  /\ \E t \in Tasks :
       /\ disp[t].pc = "process"
       /\ disp[t].node \in WorkerNodes
       /\ picked[disp[t].node].fallback = 1


\* C37: the notify channel never holds more than one token, every enqueue
\* leaves a token in it, a token is taken only by the idle loop, which then
\* calls run, and a token in the channel is taken (a pass starts) unless
\* the scheduler is stopped.
C37_NotificationStartsPass ==
  /\ [](notifyChan \in 0..NotifyCap)
  /\ [][ /\ (enqueued' # enqueued => notifyChan' = NotifyCap)
         /\ (notifyChan' < notifyChan
               => /\ runPc = "idle"
                  /\ (pendingTasks # <<>> => runPc' = "loop")) ]_vars
  /\ ((notifyChan > 0) ~> (notifyChan = 0 \/ ctxDone))


\* C38: when the goroutine of a task popped in state none is done,
\* DropTaskMeta was called once for it; the task is still in state none, is
\* not in running, has no node, and is out of pending exactly when that
\* call dropped its record.
C38_NoneDroppedOnce ==
  [][ \A t \in Tasks :
        (disp[t].pc = "post" /\ disp'[t].pc = "idle" /\ task[t].state = "none")
        => /\ dropMetaCalls'[t] = 1
           /\ task'[t].state = "none"
           /\ task'[t].node = NoNode
           /\ t \notin runningTasks'
           /\ (t \notin Queued(pendingTasks')) = (t \in finalized') ]_vars


\* What the worker does to the deadline when it applies the command of the
\* call in flight: a Pause moves it to arrival time plus duration unless it
\* is later already, a Resume clears it so that the next tick is not paused.
AppliesCommand ==
  (gcCall.pc = "sending" /\ gcCall'.pc = "done")
  => IF gcCall.op = "pause"
     THEN pauseUntil' = IF now + gcCall.duration > pauseUntil
                        THEN now + gcCall.duration ELSE pauseUntil
     ELSE pauseUntil' = 0 /\ ~(now' < pauseUntil')

\* C39 as stated: the deadline is the latest of the pauses received since
\* the last Resume, a Resume clears it, and a Pause or Resume call that
\* returned nil was applied by the worker.
C39_NilOnlyAfterApplied ==
  /\ [][AppliesCommand]_vars
  /\ []((gcCall.pc = "returned" /\ gcCall.result = "nil") => gcCall.applied)

\* C39: the same with garbage collection enabled; when it is disabled the
\* worker does not run, Pause returns nil at once with nothing applied and
\* Resume returns an error.
C39_NilAfterAppliedWhenEnabled ==
  /\ [][AppliesCommand]_vars
  /\ []((gcCall.pc = "returned" /\ gcCall.result = "nil")
          => IF gcEnabled THEN gcCall.applied
             ELSE gcCall.op = "pause" /\ ~gcCall.applied)
  /\ [](~gcEnabled => pauseUntil = 0 /\ ~gcCall.applied)

\* A Pause of one time unit has returned nil while the deadline of an
\* earlier, longer Pause stands.
C39_Witness ==
  /\ gcEnabled
  /\ gcCall.op = "pause" /\ gcCall.duration = 1
  /\ gcCall.pc = "returned" /\ gcCall.result = "nil" /\ gcCall.applied
  /\ pauseUntil > now + 1


\* C40: a notifier is cancelled only when the streaming version is saved in
\* the catalog; while it is not, every registered notifier is on the pending
\* list and none was cancelled at registration.
C40_CancelledOnlyWhenPersisted ==
  catalogVersion = NilVersion
  => \A n \in Notifiers :
       /\ notifiers[n].cancels = 0
       /\ notifiers[n].registered \in {"no", "pending"}
       /\ notifiers[n].registered = "pending"
            => \E i \in DOMAIN streamingEnableNotifiers :
                 streamingEnableNotifiers[i] = n

====
